---- MODULE Spec2Model ----
(***************************************************************************)
(* Render orchestration engine of remotion-video/src/render.ts.            *)
(*                                                                         *)
(* The engine is single-threaded JavaScript: code between two awaits runs  *)
(* without interruption, so every action below is one run of a            *)
(* continuation from one suspension point (an awaited HTTP call, a sleep)  *)
(* to the next.                                                            *)
(*                                                                         *)
(*   ExecSpec   the shared-cursor worker pool of resolveClipUrlsFromFal    *)
(*              and generateClipsFromScenes, up to main()'s catch handler  *)
(*   PollSpec   one call of resolveFalClipUrl / resolveFalImageUrl         *)
(*   PollFairSpec  the same, every HTTP call and sleep returning           *)
(*   SceneSpec  the body of generateClipsFromScenes.worker for one scene   *)
(*   SeedSpec   the seeds generateClipsFromScenes derives for the scenes    *)
(*   PromptSpec appendPrompt, applied once and again                       *)
(*   MainSpec   main() from the parsed input to the exit of the process    *)
(***************************************************************************)
EXTENDS Integers, Sequences, FiniteSets, TLC

\* ------------------------------------------------------------------ bounds

\* Largest task list (clip requests, scenes) of a batch.
MaxTasks == 4

\* The poll deadline opts.maxWaitMs (22 * 60 * 1000 ms = 330 poll intervals
\* in the callers), in poll intervals.
MaxWaitTicks == 3

\* Longest time an HTTP call takes, and a sleep oversleeps, in poll intervals.
MaxLatency == 1

\* Largest number of scenes whose seeds are derived.
MaxSeedScenes == 3

\* Longest base prompt and longest appended clause, in characters.
MaxBaseLen == 3
MaxTailLen == 2

\* Largest number of scenes of a job run through main().
MaxScenes == 2

\* Largest number of clip URLs, and of clip requests, a job supplies.
MaxClipInputs == 2

\* -------------------------------------------------------- program constants

\* opts.pollIntervalMs, the unit of time of the poller's clock.
PollTicks == 1

\* resolveClipUrlsFromFal: const concurrency = 3
ClipConcurrency == 3
\* generateClipsFromScenes: const concurrency = 2
SceneConcurrency == 2

VARIABLES
    \* --- one batch of the worker pool, and the caller main()
    batchKind,      \* "clipRequests" (resolveClipUrlsFromFal) or "scenes" (generateClipsFromScenes)
    hasFalKey,      \* process.env.FAL_KEY is non-empty
    talkingHead,    \* singleSceneTalkingHead (scenes batch)
    nTasks,         \* reqs.length / scenes.length
    cursor,         \* let cursor = 0
    results,        \* const results = new Array(n): slot -> URL or Empty
    wState,         \* each worker() promise: "idle" (not created), "running", "returned", "threw"
    wTask,          \* the index i a running worker holds
    taskState,      \* per task index: "pending", "running", "ok", "failed"
    started,        \* per task index: how many times the cursor handed it out
    writers,        \* per result slot: the workers that wrote it
    doneOrder,      \* task indices in the order their tasks completed
    batch,          \* the batch call's promise: "notStarted", "pending", "resolved", "rejected"
    returned,       \* the array the batch call returned
    mainPc,         \* main(): "beforeBatch", "inBatch", "nextStage", "catch", "exited"
    \* --- one call of resolveFalClipUrl / resolveFalImageUrl
    pKind,          \* "clip" (resolveFalClipUrl) or "image" (resolveFalImageUrl)
    pReq,           \* the job handle req: which fields it carries
    pPc,            \* "init", "awaitStatus", "awaitResult", "sleeping",
                    \* "returned", "timedOut", "failed" ("off": no poller)
    pNow,           \* Date.now()
    pDeadline,      \* started + opts.maxWaitMs
    pStatus,        \* let status, of the current cycle
    pUrl,           \* the URL returned: "none", "fromResult", "fromHandle"
    pCycles,        \* loop iterations entered
    pCycleStart,    \* Date.now() read by the loop test that entered the current cycle
    pQueried,       \* the result endpoint was requested in the current cycle
    pLast,          \* the last response handled in the current cycle
    pErrors,        \* request errors caught so far
    pHttp,          \* HTTP requests issued so far
    \* --- the body of generateClipsFromScenes.worker for one scene
    sPoolOk,        \* pool.length > 0
    sTalking,       \* singleSceneTalkingHead
    sPc,            \* "start", "awaitImageSubmit", "awaitImagePoll", "awaitClipSubmit",
                    \* "awaitClipPoll", "done", "threw" ("off": no scene)
    sModel,         \* position of m in nanoModels (0: loop not entered)
    sImageUrl,      \* let sceneImageUrl: "" or "startFrame"
    sLastErr,       \* let lastErr
    sThrown,        \* the error the scene's task threw
    sSubmits,       \* the generation jobs submitted, in order
    sFailures,      \* the provider failures caught, in order
    sResult,        \* results[i]: "", "startFrame" or "clip"
    \* --- the seeds of the scenes of one job, over two runs of the job
    hTitle,         \* input.title, as UTF-16 code units
    hChatId,        \* input.chatId, as UTF-16 code units
    hSceneSeeds,    \* s.sceneSeed of every scene, in scene order
    hSeeds,         \* const sceneSeed of the scenes reached so far in this run
    hPrevRun,       \* the seeds of the previous run of the same job (<<>>: first run)
    \* --- appendPrompt applied to a prompt, and again to its own result
    aBase,          \* base
    aTail,          \* tail
    aPc,            \* "start", "once", "twice" ("off": not called)
    aOnce,          \* appendPrompt(base, tail)
    aTwice,         \* appendPrompt(appendPrompt(base, tail), tail)
    \* --- one invocation of main()
    mModeFlag,      \* videoMode is "talking_head" (no other flag is set)
    mScenes,        \* input.scenes, by duration (0: absent or not a positive number)
    mClipUrls,      \* how many input.clipUrls are http(s) URLs
    mReqs,          \* input.clipRequests.length
    mTruthyReqs,    \* how many clip requests are truthy
    mFalKey,        \* process.env.FAL_KEY is non-empty
    mAudioUrl,      \* input.audioUrl is truthy
    mNarration,     \* input.narrationText is truthy
    mWebhook,       \* resolveN8nWebhookUrl(input) is non-empty
    mPc,            \* "start", "awaitClipRequests", "awaitSceneGen", "awaitDownload",
                    \* "awaitSynth", "awaitDuration", "awaitRender", "awaitNormalize",
                    \* "awaitUpload", "awaitCallback", "done", "catch", "exited" ("off")
    mTalking,       \* talkingHeadMode
    mClips,         \* remoteClipUrls.length
    mAudioSrc,      \* resolvedAudioSrc is non-empty
    mAudioDuration, \* audioDuration
    mTimeline,      \* timelineSeconds
    mSubtitles,     \* subtitlesSeconds (renderProps.audioDurationInSeconds)
    mLog,           \* the stages entered, in order
    mError,         \* the stage whose error main() threw ("": none)
    mExit,          \* the exit code of the process (-1: still running)
    mVideoUrl,      \* const videoUrl ("": not uploaded)
    mCallbacks,     \* the webhook requests main() and main().catch issued, in order
    \* --- normalizeOutputVideo and uploadToSupabase of one rendered file
    oFfmpeg,        \* commandExists("ffmpeg")
    oFfprobe,       \* commandExists("ffprobe")
    oEnvOk,         \* SUPABASE_URL, SUPABASE_SERVICE_ROLE_KEY and SUPABASE_BUCKET are set
    oPc,            \* "start", "probe", "crop", "encode", "postProbe", "awaitUpload",
                    \* "awaitCreate", "awaitRetry", "uploaded", "threw" ("off")
    oPre,           \* const pre: the geometry probed before the encode
    oCrop,          \* const crop: the crop filter used ("" or a crop)
    oEncode,        \* res.code of the encode (-1: no encode has finished)
    oPath,          \* normalizedPath: "", "input" or "out"
    oCmds,          \* the ffprobe / ffmpeg commands run, in order
    oHttp,          \* the storage requests issued, in order
    oReplies,       \* the answers to them, in order
    oError,         \* what the step threw ("": nothing)
    \* --- the Subtitles component: buildWordTimeline and buildCaptionGroups
    cScenes,        \* scenes[i].narration, a sequence of UTF-16 code units each
    cDuration,      \* audioDurationInSeconds, in tenths of a second
    cOpts,          \* opts of buildCaptionGroups, maxWords and maxChars in halves
    cPc,            \* "start", "timeline", "groups", "null" ("off")
    cWeights,       \* const weights, in hundredths
    cTimeline,      \* const timeline: WordEntry[]
    cGroups,        \* const groups: CaptionGroup[]
    \* --- isTalkingHeadInput applied to an input
    thMode,         \* input.videoMode, a sequence of UTF-16 code units
    thTarget,       \* Number(input.targetDurationSec || 0)
    thConfig,       \* Boolean(input.renderConfig?.talkingHeadSingleImage)
    thScenes,       \* input.scenes, by duration
    thPc,           \* "start", "done" ("off")
    thResult,       \* what isTalkingHeadInput returned
    \* --- pickFirstVideoUrl / pickFirstImageUrl applied to a payload
    kKind,          \* "video": pickFirstVideoUrl, "image": pickFirstImageUrl
    kPayload,       \* payload, a JSON value
    kPc,            \* "start", "done" ("off")
    kResult         \* the text returned

execVars == <<batchKind, hasFalKey, talkingHead, nTasks, cursor, results, wState, wTask,
              taskState, started, writers, doneOrder, batch, returned, mainPc>>

pollVars == <<pKind, pReq, pPc, pNow, pDeadline, pStatus, pUrl, pCycles, pCycleStart,
              pQueried, pLast, pErrors, pHttp>>

sceneVars == <<sPoolOk, sTalking, sPc, sModel, sImageUrl, sLastErr, sThrown, sSubmits,
               sFailures, sResult>>

seedVars == <<hTitle, hChatId, hSceneSeeds, hSeeds, hPrevRun>>

promptVars == <<aBase, aTail, aPc, aOnce, aTwice>>

mainVars == <<mModeFlag, mScenes, mClipUrls, mReqs, mTruthyReqs, mFalKey, mAudioUrl,
              mNarration, mWebhook, mPc, mTalking, mClips, mAudioSrc, mAudioDuration,
              mTimeline, mSubtitles, mLog, mError, mExit, mVideoUrl, mCallbacks>>

outVars == <<oFfmpeg, oFfprobe, oEnvOk, oPc, oPre, oCrop, oEncode, oPath, oCmds, oHttp,
             oReplies, oError>>

capVars == <<cScenes, cDuration, cOpts, cPc, cWeights, cTimeline, cGroups>>

modeVars == <<thMode, thTarget, thConfig, thScenes, thPc, thResult>>

pickVars == <<kKind, kPayload, kPc, kResult>>

restVars == <<seedVars, promptVars, mainVars, outVars, capVars, modeVars, pickVars>>

vars == <<execVars, pollVars, sceneVars, restVars>>

\* What each component leaves alone.
notExec == <<pollVars, sceneVars, restVars>>
notPoll == <<execVars, sceneVars, restVars>>
notScene == <<execVars, pollVars, restVars>>
notSeed ==
    <<execVars, pollVars, sceneVars, promptVars, mainVars, outVars, capVars, modeVars, pickVars>>
notPrompt ==
    <<execVars, pollVars, sceneVars, seedVars, mainVars, outVars, capVars, modeVars, pickVars>>
notMain ==
    <<execVars, pollVars, sceneVars, seedVars, promptVars, outVars, capVars, modeVars, pickVars>>
notCap ==
    <<execVars, pollVars, sceneVars, seedVars, promptVars, mainVars, outVars, modeVars, pickVars>>
notMode ==
    <<execVars, pollVars, sceneVars, seedVars, promptVars, mainVars, outVars, capVars,
      pickVars>>
notPick ==
    <<execVars, pollVars, sceneVars, seedVars, promptVars, mainVars, outVars, capVars,
      modeVars>>
notOut ==
    <<execVars, pollVars, sceneVars, seedVars, promptVars, mainVars, capVars, modeVars, pickVars>>

\* ----------------------------------------------------------------- helpers

Min(a, b) == IF a < b THEN a ELSE b

Empty == [task |-> -1, kind |-> "hole"]
NoTask == -1

\* A worker slot per possible worker() promise.
Workers == 1..MaxTasks
TaskIds == 0..(nTasks - 1)

\* URLs by what the two classifiers read: a video file extension, an image
\* file extension, or a fal.media/files/ path (accepted by both).
UrlKinds == {"video", "image", "falmedia"}

looksLikeVideoUrl(u) == u.kind \in {"video", "falmedia"}

looksLikeImageUrl(u) == u.kind \in {"image", "falmedia"}

\* What one task of the batch resolves to: resolveFalClipUrl returns what
\* pickFirstVideoUrl accepted, resolveFalImageUrl what pickFirstImageUrl accepted.
TaskUrlKindsAnyMedia == UrlKinds
TaskUrlKinds ==
    IF batchKind = "scenes" /\ talkingHead THEN {"image", "falmedia"} ELSE {"video", "falmedia"}

concurrency == IF batchKind = "clipRequests" THEN ClipConcurrency ELSE SceneConcurrency

NumWorkersAll(c, n) == n
\* Array.from({ length: Math.min(concurrency, n) }, () => worker())
NumWorkers(c, n) == Min(c, n)

NextCursorStale(c) == c
\* cursor++
NextCursor(c) == c + 1

SlotAsCompleted(i, res) == Cardinality({j \in DOMAIN res : res[j] # Empty})
\* results[i] = url
SlotFor(i, res) == i

WorkerLoopPastEnd(st, w) ==
    LET i == st.cursor
        st1 == [st EXCEPT !.cursor = NextCursor(i)]
    IN  IF i > nTasks
        THEN [st1 EXCEPT !.wState[w] = "returned", !.wTask[w] = NoTask]
        ELSE [st1 EXCEPT !.wState[w] = "running", !.wTask[w] = i]
\* One run of worker()'s loop head up to its next suspension:
\*   const i = cursor++; if (i >= n) return; <start task i and await it>
WorkerLoop(st, w) ==
    LET i == st.cursor
        st1 == [st EXCEPT !.cursor = NextCursor(i)]
    IN  IF i >= nTasks
        THEN [st1 EXCEPT !.wState[w] = "returned", !.wTask[w] = NoTask]
        ELSE [st1 EXCEPT !.wState[w] = "running", !.wTask[w] = i,
                         !.taskState[i] = "running", !.started[i] = @ + 1]

\* Array.from(..., () => worker()): the workers are created one after the
\* other, each running synchronously to its first await.
RECURSIVE SpawnWorkers(_, _, _)
SpawnWorkers(st, w, k) ==
    IF w > k THEN st ELSE SpawnWorkers(WorkerLoop(st, w), w + 1, k)

RECURSIVE SeqOfSlots(_, _)
\* The result array as a sequence, slot 0 first.
SeqOfSlots(res, n) ==
    IF n = 0 THEN <<>> ELSE Append(SeqOfSlots(res, n - 1), res[n - 1])

AcceptedUrlVideoOnly(u) == looksLikeVideoUrl(u)
\* results.filter(...) of the batch function
AcceptedUrl(u) ==
    IF batchKind = "scenes" /\ talkingHead
    THEN looksLikeImageUrl(u) \/ looksLikeVideoUrl(u)
    ELSE looksLikeVideoUrl(u)

Accepted(res) == SelectSeq(SeqOfSlots(res, nTasks), AcceptedUrl)

\* resolveClipUrlsFromFal returns the filtered array, generateClipsFromScenes
\* the results array itself.
BatchReturn(res) ==
    IF batchKind = "clipRequests" THEN Accepted(res) ELSE SeqOfSlots(res, nTasks)

ExecRec == [cursor |-> cursor, wState |-> wState, wTask |-> wTask,
            taskState |-> taskState, started |-> started]

\* ------------------------------------------- one scene of the scene batch

\* nanoModels, by label: the primary and the fallback image provider.
nanoModels == <<"nano-banana-pro", "nano-banana">>

NoErr == [kind |-> "none", status |-> 0, text |-> ""]

\* falPostJson's error: `fal POST failed (${res.status}) for ${url}: ${text}`,
\* by HTTP status and by what the response body says.
PostErrors == [kind : {"post"}, status : {401, 403, 500},
               text : {"other", "Cannot access application", "mentions 403"}]

\* fetch itself rejecting.
NetworkError == [kind |-> "network", status |-> 0, text |-> "fetch failed"]

\* The poller's `Timed out waiting for fal ... (requestId=...) after 1320s`,
\* by whether the request id happens to contain the digits 401 or 403.
TimeoutErrors == [kind : {"timeout"}, status : {0},
                  text : {"requestId plain", "requestId with 401"}]

\* new Error(`Failed to generate scene start frame. Last error: ...`)
NoStartFrameError == [kind |-> "noStartFrame", status |-> 0, text |-> "wrapped"]

\* new Error("No creatorImageUrls available for identity anchoring.")
NoPoolError == [kind |-> "noPool", status |-> 0, text |-> "no creatorImageUrls"]

MatchesOnlyCannotAccess(msg) == msg.text = "Cannot access application"
\* /(401|403)|Cannot access application/i.test(msg), msg being the whole
\* message: the status in parentheses, the URL (no such digits), the text.
MatchesAccessDenied(msg) ==
    \/ msg.kind = "post" /\ msg.status \in {401, 403}
    \/ msg.text \in {"Cannot access application", "mentions 403", "requestId with 401"}

\* ---------------------------------------------------------- scene seeds

\* Strings are sequences of UTF-16 code units.
Space == 32
Bar == 124
Zero == 48
SceneColon == <<115, 99, 101, 110, 101, 58>>

\* Two to the sixteenth: a 32-bit integer is kept as <<high half, low half>>.
Half == 65536

RECURSIVE TrimStart(_)
TrimStart(str) ==
    IF str # <<>> /\ Head(str) = Space THEN TrimStart(Tail(str)) ELSE str

RECURSIVE TrimEnd(_)
TrimEnd(str) ==
    IF str # <<>> /\ str[Len(str)] = Space
    THEN TrimEnd(SubSeq(str, 1, Len(str) - 1))
    ELSE str

\* String(s ?? "").trim()
clean(str) == TrimEnd(TrimStart(str))

\* `${i}` for an array index i
RECURSIVE Decimal(_)
Decimal(i) ==
    IF i < 10 THEN <<Zero + i>> ELSE Decimal(i \div 10) \o <<Zero + (i % 10)>>

SeedStringNoIndex(title, chatId, i) == title \o <<Bar>> \o chatId \o <<Bar>> \o SceneColon
\* `${input.title}|${input.chatId}|scene:${i}`
SeedString(title, chatId, i) ==
    title \o <<Bar>> \o chatId \o <<Bar>> \o SceneColon \o Decimal(i)

\* h = ((h << 5) - h + s.charCodeAt(i)) | 0 : 31 * h + c modulo 2^32
HashStep(h, c) ==
    LET low == h[2] * 31 + c
    IN  <<(h[1] * 31 + (low \div Half)) % Half, low % Half>>

RECURSIVE HashFrom(_, _)
HashFrom(h, str) ==
    IF str = <<>> THEN h ELSE HashFrom(HashStep(h, Head(str)), Tail(str))

\* The int32 h after the loop, as the unsigned 32-bit pattern of its bits.
HashBits(str) == HashFrom(<<0, 0>>, clean(str))

IsNegative(h) == h[1] >= Half \div 2

\* 2^32 - h, modulo 2^32: the bits of -h
Negated(h) ==
    IF h[2] = 0 THEN <<(Half - h[1]) % Half, 0>> ELSE <<Half - 1 - h[1], Half - h[2]>>

\* Math.abs(h), as <<high half, low half>> (2^31 for h = -2^31)
MathAbs(h) == IF IsNegative(h) THEN Negated(h) ELSE h

hashSeed(str) == MathAbs(HashBits(str))

\* s.sceneSeed as the job carries it: absent, null, or a number.
SceneSeedInputs == { [kind |-> "undefined", value |-> 0],
                     [kind |-> "null", value |-> 0],
                     [kind |-> "number", value |-> 7] }

\* Number.isFinite(Number(s.sceneSeed)): Number(undefined) is NaN, Number(null) is 0
HasNumericSeed(v) == v.kind # "undefined"
NumberOf(v) == IF v.kind = "null" THEN 0 ELSE v.value

\* const sceneSeed = Number.isFinite(Number(s.sceneSeed)) ? Number(s.sceneSeed)
\*                                                         : hashSeed(...)
SceneSeed(v, title, chatId, i) ==
    IF HasNumericSeed(v) THEN <<0, NumberOf(v)>> ELSE hashSeed(SeedString(title, chatId, i))

\* Titles and chat ids of the jobs considered: "elrndux", "Untitled" with a
\* leading space, "ab"; "1", "42".
Titles == { <<101, 108, 114, 110, 100, 117, 120>>,
            <<32, 85, 110, 116, 105, 116, 108, 101, 100>>,
            <<97, 98>> }
ChatIds == { <<49>>, <<52, 50>> }

RECURSIVE SeqsUpTo(_, _)
SeqsUpTo(S, n) ==
    IF n = 0 THEN {<<>>}
    ELSE LET shorter == SeqsUpTo(S, n - 1)
         IN  shorter \cup {Append(q, x) : q \in {r \in shorter : Len(r) = n - 1}, x \in S}

SeedIdle ==
    /\ hTitle = <<>>
    /\ hChatId = <<>>
    /\ hSceneSeeds = <<>>
    /\ hSeeds = <<>>
    /\ hPrevRun = <<>>

\* -------------------------------------------------------------- prompts

Dot == 46
UpperA == 65
UpperZ == 90
\* Distance from an upper-case ASCII letter to its lower-case letter.
CaseGap == 32

\* The characters prompts are made of here: "a", "A", " ", ".".
PromptChars == {97, UpperA, Space, Dot}

toLowerCaseUnchanged(str) == str
\* s.toLowerCase()
toLowerCase(str) ==
    [k \in 1..Len(str) |-> IF str[k] >= UpperA /\ str[k] <= UpperZ
                            THEN str[k] + CaseGap ELSE str[k]]

\* s.includes(t)
includes(str, t) ==
    \E k \in 0..(Len(str) - Len(t)) : SubSeq(str, k + 1, k + Len(t)) = t

appendPrompt(base, tail) ==
    LET b == clean(base)
        t == clean(tail)
    IN  IF b = <<>> THEN t
        ELSE IF t = <<>> THEN b
        ELSE IF includes(toLowerCase(b), toLowerCase(t)) THEN b
        ELSE b \o <<Dot, Space>> \o t

PromptIdle ==
    /\ aBase = <<>>
    /\ aTail = <<>>
    /\ aPc = "off"
    /\ aOnce = <<>>
    /\ aTwice = <<>>

\* ----------------------------------------------------------------- main()

\* duration: 30 of the single talking-head scene
TalkingSceneSeconds == 30
\* Math.max(30, timelineSeconds)
TalkingFloorSeconds == 30
\* singleLongScene: duration >= 25
LongSceneSeconds == 25
\* a scene without a positive duration counts 5 seconds in a silent render
DefaultSceneSeconds == 5
\* remoteClipUrls.length * 5
SecondsPerClip == 5
\* Math.max(6, ...)
MinSilentSeconds == 6
\* ... || 15
SilentFallbackSeconds == 15

\* Scene durations a job declares: none or not a positive number (0), 4, 40.
SceneDurations == {0, 4, 40}

\* What getAudioDuration returns: metadata duration, or the size-based
\* estimate, which is 0 for an empty file.
AudioDurations == {0, 3, 50}

Max(a, b) == IF a > b THEN a ELSE b

\* a || b on numbers
OrElse(a, b) == IF a # 0 THEN a ELSE b

\* "talking_head"
TalkingHeadMode == <<116, 97, 108, 107, 105, 110, 103, 95, 104, 101, 97, 100>>

singleSceneOrMore(scenes) == Len(scenes) >= 1

\* scenes.length === 1
singleScene(scenes) == Len(scenes) = 1

isTalkingHeadInput(videoMode, targetDurationSec, configFlag, scenes) ==
    LET mode == toLowerCase(clean(videoMode))
        target == targetDurationSec
        singleLongScene == Len(scenes) = 1 /\ scenes[1] >= LongSceneSeconds
    IN  \/ mode = TalkingHeadMode
        \/ target >= TalkingSceneSeconds
        \/ configFlag
        \/ singleLongScene
        \/ singleScene(scenes)

\* The videoMode of a job of main(): "talking_head" or none.
VideoModeOf(modeFlag) == IF modeFlag THEN TalkingHeadMode ELSE <<>>

ScenesOfJobKept(talking, scenes) == scenes
\* input.scenes = [{ ...s0, type: "hook", index: 0, duration: 30 }]
ScenesOfJob(talking, scenes) ==
    IF talking /\ Len(scenes) > 0 THEN <<TalkingSceneSeconds>> ELSE scenes

\* reduce((sum, s) => sum + (d > 0 ? d : 5), 0)
RECURSIVE sceneBasedDuration(_)
sceneBasedDuration(scenes) ==
    IF scenes = <<>> THEN 0
    ELSE (IF Head(scenes) > 0 THEN Head(scenes) ELSE DefaultSceneSeconds)
         + sceneBasedDuration(Tail(scenes))

\* reduce((sum, s) => sum + (d > 0 ? d : 0), 0)
RECURSIVE sceneTimelineSeconds(_)
sceneTimelineSeconds(scenes) ==
    IF scenes = <<>> THEN 0
    ELSE (IF Head(scenes) > 0 THEN Head(scenes) ELSE 0) + sceneTimelineSeconds(Tail(scenes))

\* audioDuration of a render without audio source
SilentDuration(scenes, clips) ==
    Max(MinSilentSeconds,
        OrElse(OrElse(sceneBasedDuration(scenes), clips * SecondsPerClip),
               SilentFallbackSeconds))

TimelineWithoutFloor(scenes, audio, clips, talking) ==
    IF sceneTimelineSeconds(scenes) > 0 THEN sceneTimelineSeconds(scenes)
    ELSE IF audio > 0 THEN audio ELSE clips * SecondsPerClip
\* timelineSeconds
TimelineSeconds(scenes, audio, clips, talking) ==
    LET base == IF sceneTimelineSeconds(scenes) > 0 THEN sceneTimelineSeconds(scenes)
                ELSE IF audio > 0 THEN audio ELSE clips * SecondsPerClip
    IN  IF talking THEN Max(TalkingFloorSeconds, base) ELSE base

SubtitlesAlwaysMin(audio, timeline) == Min(audio, timeline)
\* subtitlesSeconds
SubtitlesSeconds(audio, timeline) ==
    IF audio > 0 THEN Min(audio, timeline) ELSE timeline

\* if (remoteClipUrls.length === 0 && (input.clipRequests || []).length > 0)
ResolvesRequests(clips, reqs) == clips = 0 /\ reqs > 0

GeneratesScenesAlways(clips, scenes) == Len(scenes) > 0
\* if (remoteClipUrls.length === 0 && (input.scenes || []).length > 0)
GeneratesScenes(clips, scenes) == clips = 0 /\ Len(scenes) > 0

SynthesizesWithNarration(audioUrl, narration) == narration
\* if (input.audioUrl) ... else if (input.narrationText)
Synthesizes(audioUrl, narration) == ~audioUrl /\ narration

SynthFailureThrown == "catch"
\* catch (err) { console.error("Voice synthesis failed, rendering without voiceover:", err) }
SynthFailureCaught == "silent"

MainIdle ==
    /\ mModeFlag = FALSE
    /\ mScenes = <<>>
    /\ mClipUrls = 0
    /\ mReqs = 0
    /\ mTruthyReqs = 0
    /\ mFalKey = TRUE
    /\ mAudioUrl = FALSE
    /\ mNarration = FALSE
    /\ mWebhook = FALSE
    /\ mPc = "off"
    /\ mTalking = FALSE
    /\ mClips = 0
    /\ mAudioSrc = FALSE
    /\ mAudioDuration = 0
    /\ mTimeline = 0
    /\ mSubtitles = 0
    /\ mLog = <<>>
    /\ mError = ""
    /\ mExit = -1
    /\ mVideoUrl = ""
    /\ mCallbacks = <<>>

\* ------------------------------------------- normalization and upload

\* const targetW = 1080, const targetH = 1920
TargetW == 1080
TargetH == 1920
\* cropParsed.w <= pre.width - 80 || cropParsed.h <= pre.height - 80
CropMargin == 80

\* What probeVideo returns without ffprobe, on a non-zero exit code, or on
\* unparseable output.
NoGeometry == [width |-> 0, height |-> 0]

\* What probeVideo returns for the rendered file otherwise.
Geometries == {[width |-> TargetW, height |-> TargetH]}

NoCrop == [w |-> 0, h |-> 0]

\* parseCrop(detectCrop(...)): no crop=... line, the full frame, black bars
\* inside the margin, black bars beyond it.
CropResults == {NoCrop, [w |-> TargetW, h |-> TargetH], [w |-> TargetW, h |-> 1900],
                [w |-> TargetW, h |-> 1600]}

cropIsMeaningful(crop, pre) ==
    /\ crop # NoCrop
    /\ pre.width > 0
    /\ pre.height > 0
    /\ (crop.w <= pre.width - CropMargin \/ crop.h <= pre.height - CropMargin)

\* The answers of the storage service to an upload; status 0: fetch rejected.
UploadReplies ==
    [status : {400, 403}, body : {"Bucket not found", "other", ""}]
        \cup {[status |-> 200, body |-> ""], [status |-> 0, body |-> ""]}

\* The answers to the bucket creation; status 0: fetch rejected.
CreateReplies == [status : {200, 409, 500, 0}, body : {""}]

\* res.ok
IsOk(reply) == reply.status >= 200 /\ reply.status <= 299

\* !uploadRes.ok && uploadRes.status === 400 && /Bucket not found/i.test(body)
BucketMissing(reply) ==
    ~IsOk(reply) /\ reply.status = 400 /\ reply.body = "Bucket not found"

\* !(!createRes.ok && createRes.status !== 409)
CreateAcceptedOnlyOk(reply) == IsOk(reply)

CreateAccepted(reply) == IsOk(reply) \/ reply.status = 409

OutIdle ==
    /\ oFfmpeg = FALSE
    /\ oFfprobe = FALSE
    /\ oEnvOk = FALSE
    /\ oPc = "off"
    /\ oPre = NoGeometry
    /\ oCrop = NoCrop
    /\ oEncode = -1
    /\ oPath = ""
    /\ oCmds = <<>>
    /\ oHttp = <<>>
    /\ oReplies = <<>>
    /\ oError = ""

\* ------------------------------------------------------- caption helpers

\* \s, the ASCII part: tab, line feed, carriage return, space
Whitespace == {9, 10, 13, 32}

\* [.!?]
StrongMarks == {46, 33, 63}

\* [,;:]
SoftMarks == {44, 59, 58}

\* [a-z0-9] with the i flag
IsAlnum(c) == (c >= 48 /\ c <= 57) \/ (c >= 65 /\ c <= 90) \/ (c >= 97 /\ c <= 122)

RECURSIVE SplitFrom(_, _, _)
SplitFrom(text, cur, acc) ==
    LET closed == IF cur = <<>> THEN acc ELSE Append(acc, cur)
    IN  IF text = <<>> THEN closed
        ELSE IF Head(text) \in Whitespace THEN SplitFrom(Tail(text), <<>>, closed)
        ELSE SplitFrom(Tail(text), Append(cur, Head(text)), acc)

\* narration.split(/\s+/).filter(Boolean)
SplitWords(narration) == SplitFrom(narration, <<>>, <<>>)

RECURSIVE AllWords(_)
AllWords(scenes) ==
    IF scenes = <<>> THEN <<>> ELSE SplitWords(Head(scenes)) \o AllWords(Tail(scenes))

endsWithStrongPause(word) == word # <<>> /\ word[Len(word)] \in StrongMarks

endsWithSoftPause(word) == word # <<>> /\ word[Len(word)] \in SoftMarks

LongWordLength == 9

isLongCountingMarks(word) == Len(word) >= LongWordLength

\* word.replace(/[^a-z0-9]/gi, "").length >= 9
isLong(word) == Cardinality({k \in 1..Len(word) : IsAlnum(word[k])}) >= LongWordLength

\* The weight of one word, in hundredths.
WeightOf(word) ==
    100 + (IF endsWithSoftPause(word) THEN 35 ELSE 0)
        + (IF endsWithStrongPause(word) THEN 80 ELSE 0)
        + (IF isLong(word) THEN 15 ELSE 0)

WeightsOf(allWords) == [i \in 1..Len(allWords) |-> WeightOf(allWords[i])]

RECURSIVE SumSeq(_)
SumSeq(q) == IF q = <<>> THEN 0 ELSE Head(q) + SumSeq(Tail(q))

\* Math.round(n / d) for d > 0: the floor of n / d + 1/2
Round(n, d) == (2 * n + d) \div (2 * d)

\* A time is kept exactly, as a multiple of 1 / TimeUnits(totalWeight) seconds.
TimeUnits(totalWeight) == 10 * totalWeight

wordDurationUnweighted(weight, totalWeight, duration) ==
    IF totalWeight > 0 THEN 100 * duration ELSE 0

\* (weight / totalWeight) * totalDurationSec, in 1 / TimeUnits(totalWeight) seconds
wordDuration(weight, totalWeight, duration) ==
    IF totalWeight > 0 THEN weight * duration ELSE 0

buildWordTimeline(scenes, duration, fps) ==
    LET allWords == AllWords(scenes)
        weights == WeightsOf(allWords)
        totalWeight == SumSeq(weights)
        units == TimeUnits(totalWeight)
        currentTime[i \in 1..Len(allWords)] ==
            IF i = 1 THEN 0
            ELSE currentTime[i - 1] + wordDuration(weights[i - 1], totalWeight, duration)
    IN  IF allWords = <<>> THEN <<>>
        ELSE [i \in 1..Len(allWords) |->
                [word |-> allWords[i],
                 startFrame |-> Round(currentTime[i] * fps, units),
                 endFrame |-> Round((currentTime[i]
                                       + wordDuration(weights[i], totalWeight, duration)) * fps,
                                    units)]]

RECURSIVE SkipWhitespace(_)
SkipWhitespace(str) ==
    IF str # <<>> /\ Head(str) \in Whitespace THEN SkipWhitespace(Tail(str)) ELSE str

RECURSIVE DropTrailingWhitespace(_)
DropTrailingWhitespace(str) ==
    IF str # <<>> /\ str[Len(str)] \in Whitespace
    THEN DropTrailingWhitespace(SubSeq(str, 1, Len(str) - 1))
    ELSE str

\* str.trim()
Trim(str) == DropTrailingWhitespace(SkipWhitespace(str))

RECURSIVE CollapseWhitespace(_)
\* str.replace(/\s+/g, " ")
CollapseWhitespace(str) ==
    IF str = <<>> THEN <<>>
    ELSE IF Head(str) \in Whitespace THEN <<32>> \o CollapseWhitespace(SkipWhitespace(str))
    ELSE <<Head(str)>> \o CollapseWhitespace(Tail(str))

normalizeWord(word) == CollapseWhitespace(Trim(word))

RECURSIVE JoinWithSpace(_)
\* words.join(" ")
JoinWithSpace(words) ==
    IF words = <<>> THEN <<>>
    ELSE IF Len(words) = 1 THEN words[1]
    ELSE words[1] \o <<32>> \o JoinWithSpace(Tail(words))

estimateLineLen(words) == Len(Trim(CollapseWhitespace(JoinWithSpace(words))))

\* Math.floor of a number kept in halves
Floor(halves) == halves \div 2

flushAlways(groups, cur) ==
    Append(groups, [words |-> cur,
                    startFrame |-> IF cur = <<>> THEN 0 ELSE cur[1].startFrame,
                    endFrame |-> IF cur = <<>> THEN 0 ELSE cur[Len(cur)].endFrame])

\* flush(): the groups after it (cur is emptied by the caller)
flush(groups, cur) ==
    IF cur = <<>> THEN groups
    ELSE Append(groups, [words |-> cur,
                         startFrame |-> cur[1].startFrame,
                         endFrame |-> cur[Len(cur)].endFrame])

wouldExceedWordsLate(curLength, maxWords) == curLength > maxWords

wouldExceedWords(curLength, maxWords) == curLength + 1 > maxWords

wouldExceedChars(testWords, maxChars) == estimateLineLen(testWords) > maxChars

strongPauseDotOnly(word) == word # <<>> /\ word[Len(word)] = 46

\* /[.!?]$/.test(word)
strongPause(word) == word # <<>> /\ word[Len(word)] \in StrongMarks

\* /[,;:]$/.test(word)
softPause(word) == word # <<>> /\ word[Len(word)] \in SoftMarks

softBreakAtOne(maxWords) == 1

\* Math.max(3, Math.floor(maxWords * 0.6))
softBreakAt(maxWords) == Max(3, (maxWords * 6) \div 10)

RECURSIVE GroupsFrom(_, _, _, _, _)
\* The for loop over the entries still to come, then the final flush().
GroupsFrom(rest, cur, groups, maxWords, maxChars) ==
    IF rest = <<>> THEN flush(groups, cur)
    ELSE LET entry == Head(rest)
             word == normalizeWord(entry.word)
             testWords == [k \in 1..Len(cur) |-> normalizeWord(cur[k].word)] \o <<word>>
             early == /\ cur # <<>>
                      /\ \/ wouldExceedWords(Len(cur), maxWords)
                         \/ wouldExceedChars(testWords, maxChars)
             groups1 == IF early THEN flush(groups, cur) ELSE groups
             cur1 == IF early THEN <<>> ELSE cur
             cur2 == Append(cur1, [entry EXCEPT !.word = word])
             cut == \/ strongPause(word)
                    \/ softPause(word) /\ Len(cur2) >= softBreakAt(maxWords)
         IN  IF cut
             THEN GroupsFrom(Tail(rest), <<>>, flush(groups1, cur2), maxWords, maxChars)
             ELSE GroupsFrom(Tail(rest), cur2, groups1, maxWords, maxChars)

buildCaptionGroups(timeline, opts) ==
    GroupsFrom(timeline, <<>>, <<>>, Max(1, Floor(opts.maxWords)), Max(10, Floor(opts.maxChars)))

CapIdle ==
    /\ cScenes = <<>>
    /\ cDuration = 0
    /\ cOpts = [maxWords |-> 0, maxChars |-> 0]
    /\ cPc = "off"
    /\ cWeights = <<>>
    /\ cTimeline = <<>>
    /\ cGroups = <<>>

ModeIdle ==
    /\ thMode = <<>>
    /\ thTarget = 0
    /\ thConfig = FALSE
    /\ thScenes = <<>>
    /\ thPc = "off"
    /\ thResult = FALSE

\* ------------------------------------------------- JSON values (payloads)

\* A text: a URL by what the classifiers read in it (its kind, and whether it
\* is a queue.fal.run/.../requests/ URL), or a text that is no URL.
NoText == [id |-> 0, kind |-> "none", queue |-> FALSE]
ObjectText == [id |-> 0, kind |-> "text", queue |-> FALSE]

\* A JSON value: t is "null", "str", "arr" or "obj", v the text of a string,
\* kids the entries of an array or object as <<key, value>>, in the order of
\* Object.values.
Null == [t |-> "null", v |-> NoText, kids |-> <<>>]
Str(u) == [t |-> "str", v |-> u, kids |-> <<>>]
Obj(entries) == [t |-> "obj", v |-> NoText, kids |-> entries]
Arr1(item) == [t |-> "arr", v |-> NoText, kids |-> << <<"0", item>> >>]

PickIdle ==
    /\ kKind = "video"
    /\ kPayload = Null
    /\ kPc = "off"
    /\ kResult = NoText

RestIdle ==
    SeedIdle /\ PromptIdle /\ MainIdle /\ OutIdle /\ CapIdle /\ ModeIdle /\ PickIdle

SkipsMotionNever(talking) == FALSE
\* if (singleSceneTalkingHead) { results[i] = sceneImageUrl; continue; }
SkipsMotion(talking) == talking

SceneIdle ==
    /\ sPoolOk = TRUE
    /\ sTalking = FALSE
    /\ sPc = "off"
    /\ sModel = 0
    /\ sImageUrl = ""
    /\ sLastErr = NoErr
    /\ sThrown = NoErr
    /\ sSubmits = <<>>
    /\ sFailures = <<>>
    /\ sResult = ""

ExecIdle ==
    /\ batchKind = "clipRequests"
    /\ hasFalKey = TRUE
    /\ talkingHead = FALSE
    /\ nTasks = 0
    /\ cursor = 0
    /\ results = <<>>
    /\ wState = [w \in Workers |-> "idle"]
    /\ wTask = [w \in Workers |-> NoTask]
    /\ taskState = <<>>
    /\ started = <<>>
    /\ writers = <<>>
    /\ doneOrder = <<>>
    /\ batch = "notStarted"
    /\ returned = <<>>
    /\ mainPc = "off"

\* ------------------------------------------------------ the job poller

\* The job handles: whether req carries a request id, an explicit status URL
\* and response URL that look like URLs, and an artifact URL of its own.
Handles == [requestId : BOOLEAN, statusUrl : BOOLEAN, responseUrl : BOOLEAN,
            artifact : BOOLEAN]

\* const sUrl = looksLikeUrl(statusUrl) ? statusUrl : fallbackStatusUrl
StatusUrlOf(req) ==
    IF req.statusUrl THEN "explicit" ELSE IF req.requestId THEN "fallback" ELSE ""

ResultUrlAlwaysBuilt(req) == IF req.responseUrl THEN "explicit" ELSE "fallback"
\* const rUrl = looksLikeUrl(responseUrl) ? responseUrl : fallbackResponseUrl
ResultUrlOf(req) ==
    IF req.responseUrl THEN "explicit" ELSE IF req.requestId THEN "fallback" ELSE ""

\* The status strings a status response may carry (statusJson.status, ...),
\* as sent: the queue's vocabulary in either case, a value outside it, none.
RawStatuses == {"", "IN_QUEUE", "IN_PROGRESS", "COMPLETED", "completed",
                "FAILED", "failed", "ERROR", "CANCELLED", "OK"}

\* clean(...).toUpperCase()
CleanUpper(raw) ==
    CASE raw = "completed" -> "COMPLETED"
      [] raw = "failed" -> "FAILED"
      [] OTHER -> raw

\* ["FAILED", "ERROR", "CANCELLED"].includes(status)
TerminalStatuses == {"FAILED", "ERROR", "CANCELLED"}

\* What a request to the status endpoint ends in: an error (network, non-2xx)
\* or a JSON body with a status string.
StatusResponses == {[ok |-> FALSE, status |-> ""]} \cup
                   {[ok |-> TRUE, status |-> r] : r \in RawStatuses}

\* What a request to the result endpoint ends in: an error, the 400
\* "Request is still in progress", a body in which pickFirst*Url finds a URL,
\* or a body in which it finds none.
ResultResponses == {"error", "stillInProgress", "artifact", "noArtifact"}

ShouldQueryUnlessTerminal(status) == status \notin TerminalStatuses
\* if (!status || status === "COMPLETED")
ShouldQueryResult(status) == status = "" \/ status = "COMPLETED"

\* The result try block once the status try block is over: the next
\* suspension is the result request, or the sleep.
AfterStatusPhase(req, status) ==
    IF ResultUrlOf(req) # "" /\ ShouldQueryResult(status) THEN "awaitResult" ELSE "sleeping"

\* falGetJson threw in the status try block: caught, logged, status stays "".
AfterStatusError(req) == AfterStatusPhase(req, "")

TerminalStatusFatal(req, status) == "failed"
\* throw new Error("fal ... request failed: status=...") inside the status
\* try block: the catch right below it takes it, with status already assigned.
AfterTerminalStatus(req, status) == AfterStatusPhase(req, status)

ResultErrorFatal(resp) == "failed"
\* falGetJson threw in the result try block: caught (logged unless the body
\* says still in progress), on to the sleep.
AfterResultError(resp) == "sleeping"

\* const direct = pickFirst*Url(resultJson) || pickFirst*Url(req)
DirectUrl(req, resp) ==
    IF resp = "artifact" THEN "fromResult"
    ELSE IF req.artifact THEN "fromHandle" ELSE "none"

\* while (Date.now() < deadline) { let status = ""; ... up to the first await
EnterCycle(req, now, deadline) ==
    IF now < deadline
    THEN IF StatusUrlOf(req) # "" THEN "awaitStatus" ELSE AfterStatusPhase(req, "")
    ELSE "timedOut"

PollTerminated == pPc \in {"returned", "timedOut", "failed"}

PollIdleVars ==
    /\ pKind = "clip"
    /\ pReq = [requestId |-> FALSE, statusUrl |-> FALSE, responseUrl |-> FALSE,
               artifact |-> FALSE]
    /\ pPc = "off"
    /\ pNow = 0
    /\ pDeadline = 0
    /\ pStatus = ""
    /\ pUrl = "none"
    /\ pCycles = 0
    /\ pCycleStart = 0
    /\ pQueried = FALSE
    /\ pLast = "none"
    /\ pErrors = 0
    /\ pHttp = 0

PollIdle == PollIdleVars /\ SceneIdle

PollInit ==
    /\ ExecIdle
    /\ SceneIdle
    /\ RestIdle
    /\ pKind \in {"clip", "image"}
    /\ pReq \in Handles
    /\ pPc = "init"
    /\ pNow = 0
    /\ pDeadline = 0
    /\ pStatus = ""
    /\ pUrl = "none"
    /\ pCycles = 0
    /\ pCycleStart = 0
    /\ pQueried = FALSE
    /\ pLast = "none"
    /\ pErrors = 0
    /\ pHttp = 0

SceneInit ==
    /\ ExecIdle
    /\ PollIdleVars
    /\ RestIdle
    /\ sPoolOk \in BOOLEAN
    /\ sTalking \in BOOLEAN
    /\ sPc = "start"
    /\ sModel = 0
    /\ sImageUrl = ""
    /\ sLastErr = NoErr
    /\ sThrown = NoErr
    /\ sSubmits = <<>>
    /\ sFailures = <<>>
    /\ sResult = ""

\* isTalkingHeadInput on the scenes main() hands to generateClipsFromScenes:
\* a single scene is always talking-head, and a talking-head job has had its
\* scenes replaced by one scene, so several scenes are never talking-head.
IsTalkingHeadBatch(kind, n) ==
    IF kind # "scenes" THEN {FALSE}
    ELSE IF n = 1 THEN {TRUE}
    ELSE IF n = 0 THEN BOOLEAN
    ELSE {FALSE}

\* -------------------------------------------------------------------- Init

ExecInit ==
    /\ PollIdle
    /\ RestIdle
    /\ batchKind \in {"clipRequests", "scenes"}
    /\ hasFalKey \in BOOLEAN
    /\ nTasks \in 0..MaxTasks
    /\ talkingHead \in IsTalkingHeadBatch(batchKind, nTasks)
    /\ cursor = 0
    /\ results = [i \in TaskIds |-> Empty]
    /\ wState = [w \in Workers |-> "idle"]
    /\ wTask = [w \in Workers |-> NoTask]
    /\ taskState = [i \in TaskIds |-> "pending"]
    /\ started = [i \in TaskIds |-> 0]
    /\ writers = [i \in TaskIds |-> {}]
    /\ doneOrder = <<>>
    /\ batch = "notStarted"
    /\ returned = <<>>
    /\ mainPc = "beforeBatch"

\* ----------------------------------------------------------------- actions

\* main() calls the batch function: the FAL_KEY check, the empty-list return,
\* then the creation of the workers.
StartBatch ==
    /\ mainPc = "beforeBatch"
    /\ IF ~hasFalKey
       THEN /\ batch' = "rejected"
            /\ mainPc' = "catch"
            /\ UNCHANGED <<cursor, wState, wTask, taskState, started, returned>>
       ELSE IF nTasks = 0
       THEN /\ batch' = "resolved"
            /\ returned' = <<>>
            /\ mainPc' = "nextStage"
            /\ UNCHANGED <<cursor, wState, wTask, taskState, started>>
       ELSE LET st == SpawnWorkers(ExecRec, 1, NumWorkers(concurrency, nTasks))
            IN  /\ cursor' = st.cursor
                /\ wState' = st.wState
                /\ wTask' = st.wTask
                /\ taskState' = st.taskState
                /\ started' = st.started
                /\ batch' = "pending"
                /\ mainPc' = "inBatch"
                /\ UNCHANGED returned
    /\ UNCHANGED <<batchKind, hasFalKey, talkingHead, nTasks, results, writers, doneOrder>>
    /\ UNCHANGED notExec

\* The awaited task of worker w resolves with a URL: results[i] = url, then the
\* loop head again. When this was the last worker to return, Promise.all
\* resolves and the batch function filters, counts and returns (or throws).
TaskResolves(w) ==
    /\ mainPc = "inBatch"
    /\ wState[w] = "running"
    /\ \E k \in TaskUrlKinds :
        LET i    == wTask[w]
            url  == [task |-> i, kind |-> k]
            slot == SlotFor(i, results)
            res  == [results EXCEPT ![slot] = url]
            st   == WorkerLoop([ExecRec EXCEPT !.taskState[i] = "ok"], w)
            allReturned == \A v \in Workers : st.wState[v] \in {"idle", "returned"}
        IN  /\ results' = res
            /\ writers' = [writers EXCEPT ![slot] = @ \cup {w}]
            /\ doneOrder' = Append(doneOrder, i)
            /\ cursor' = st.cursor
            /\ wState' = st.wState
            /\ wTask' = st.wTask
            /\ taskState' = st.taskState
            /\ started' = st.started
            /\ IF ~allReturned
               THEN UNCHANGED <<batch, returned, mainPc>>
               ELSE IF Len(Accepted(res)) # nTasks
               THEN /\ batch' = "rejected"
                    /\ mainPc' = "catch"
                    /\ UNCHANGED returned
               ELSE /\ batch' = "resolved"
                    /\ returned' = BatchReturn(res)
                    /\ mainPc' = "nextStage"
    /\ UNCHANGED <<batchKind, hasFalKey, talkingHead, nTasks>>
    /\ UNCHANGED notExec

\* The awaited task of worker w throws: nothing in worker() catches it, so the
\* worker's promise rejects, Promise.all rejects at once, and the rejection
\* runs through the batch function and main() to main().catch.
TaskThrows(w) ==
    /\ mainPc = "inBatch"
    /\ wState[w] = "running"
    /\ wState' = [wState EXCEPT ![w] = "threw"]
    /\ taskState' = [taskState EXCEPT ![wTask[w]] = "failed"]
    /\ doneOrder' = Append(doneOrder, wTask[w])
    /\ batch' = "rejected"
    /\ mainPc' = "catch"
    /\ UNCHANGED <<batchKind, hasFalKey, talkingHead, nTasks, cursor, results, wTask,
                   started, writers, returned>>
    /\ UNCHANGED notExec

\* main().catch: error note, failure callback, process.exit(1). Whatever is
\* still awaited in the process ends with it.
MainCatch ==
    /\ mainPc = "catch"
    /\ mainPc' = "exited"
    /\ UNCHANGED <<batchKind, hasFalKey, talkingHead, nTasks, cursor, results, wState,
                   wTask, taskState, started, writers, doneOrder, batch, returned>>
    /\ UNCHANGED notExec

ExecNext ==
    \/ StartBatch
    \/ \E w \in Workers : TaskResolves(w)
    \/ \E w \in Workers : TaskThrows(w)
    \/ MainCatch

ExecSpec == ExecInit /\ [][ExecNext]_vars

\* The batch function is called, and every task a worker awaits finishes: it
\* returns or it throws.
ExecFairSpec ==
    /\ ExecSpec
    /\ WF_vars(StartBatch)
    /\ \A w \in Workers : WF_vars(TaskResolves(w) \/ TaskThrows(w))
    /\ WF_vars(MainCatch)

\* ------------------------------------------------------ poller: actions

\* One entry of the while loop, from its test to the first await of the cycle.
\* pc is EnterCycle's answer; the request counted is the one that cycle
\* starts with.
PollCycleEntry(pc, now) ==
    /\ pPc' = pc
    /\ pNow' = now
    /\ pStatus' = ""
    /\ pLast' = "none"
    /\ pQueried' = (pc = "awaitResult")
    /\ pCycles' = IF pc = "timedOut" THEN pCycles ELSE pCycles + 1
    /\ pCycleStart' = IF pc = "timedOut" THEN pCycleStart ELSE now
    /\ pHttp' = IF pc \in {"awaitStatus", "awaitResult"} THEN pHttp + 1 ELSE pHttp

\* The call: started = Date.now(), deadline = started + maxWaitMs, first loop test.
PollStart ==
    /\ pPc = "init"
    /\ pDeadline' = pNow + MaxWaitTicks
    /\ PollCycleEntry(EnterCycle(pReq, pNow, pNow + MaxWaitTicks), pNow)
    /\ UNCHANGED <<pKind, pReq, pUrl, pErrors>>
    /\ UNCHANGED notPoll

\* The status request settles. Its body's status is cleaned and upper-cased;
\* a terminal status throws into the catch of the same try block.
PollStatusResponse ==
    /\ pPc = "awaitStatus"
    /\ \E d \in 0..MaxLatency, r \in StatusResponses :
        LET status == IF r.ok THEN CleanUpper(r.status) ELSE ""
            pc == IF ~r.ok THEN AfterStatusError(pReq)
                  ELSE IF status \in TerminalStatuses THEN AfterTerminalStatus(pReq, status)
                  ELSE AfterStatusPhase(pReq, status)
        IN  /\ pNow' = pNow + d
            /\ pStatus' = status
            /\ pPc' = pc
            /\ pLast' = IF r.ok THEN "statusOk" ELSE "statusError"
            /\ pErrors' = IF r.ok /\ status \notin TerminalStatuses THEN pErrors ELSE pErrors + 1
            /\ pQueried' = (pc = "awaitResult")
            /\ pHttp' = IF pc = "awaitResult" THEN pHttp + 1 ELSE pHttp
    /\ UNCHANGED <<pKind, pReq, pDeadline, pUrl, pCycles, pCycleStart>>
    /\ UNCHANGED notPoll

\* The result request settles: return the URL found, or go to sleep.
PollResultResponse ==
    /\ pPc = "awaitResult"
    /\ \E d \in 0..MaxLatency, r \in ResultResponses :
        LET isError == r \in {"error", "stillInProgress"}
            direct == DirectUrl(pReq, r)
        IN  /\ pNow' = pNow + d
            /\ pLast' = CASE r = "error" -> "resultError"
                          [] r = "stillInProgress" -> "resultStill"
                          [] r = "artifact" -> "resultArtifact"
                          [] OTHER -> "resultEmpty"
            /\ pErrors' = IF isError THEN pErrors + 1 ELSE pErrors
            /\ IF isError
               THEN pPc' = AfterResultError(r) /\ UNCHANGED pUrl
               ELSE IF direct # "none"
               THEN pPc' = "returned" /\ pUrl' = direct
               ELSE pPc' = "sleeping" /\ UNCHANGED pUrl
    /\ UNCHANGED <<pKind, pReq, pDeadline, pStatus, pCycles, pCycleStart, pQueried, pHttp>>
    /\ UNCHANGED notPoll

\* The sleep of one poll interval is over: back to the loop test.
PollWake ==
    /\ pPc = "sleeping"
    /\ \E d \in 0..MaxLatency :
        LET now == pNow + PollTicks + d
        IN  PollCycleEntry(EnterCycle(pReq, now, pDeadline), now)
    /\ UNCHANGED <<pKind, pReq, pDeadline, pUrl, pErrors>>
    /\ UNCHANGED notPoll

PollNext ==
    \/ PollStart
    \/ PollStatusResponse
    \/ PollResultResponse
    \/ PollWake

PollSpec == PollInit /\ [][PollNext]_vars

\* Every HTTP call and every sleep returns.
PollFairSpec ==
    /\ PollSpec
    /\ WF_vars(PollStart)
    /\ WF_vars(PollStatusResponse)
    /\ WF_vars(PollResultResponse)
    /\ WF_vars(PollWake)

\* ------------------------------------------------------- scene: actions

\* console.log + falPostJson(m.url, sceneImageBody, falKey), awaited.
SubmitImage(m) ==
    /\ sModel' = m
    /\ sSubmits' = Append(sSubmits, [to |-> nanoModels[m], body |-> "sceneImageBody"])
    /\ sPc' = "awaitImageSubmit"

\* The catch of the provider loop, for the error e of provider nanoModels[m]:
\* continue to the next provider, or throw e; a loop that runs out leaves
\* sceneImageUrl empty and throws the start-frame error.
ImageFailure(m, e) ==
    /\ sLastErr' = e
    /\ sFailures' = Append(sFailures, [label |-> nanoModels[m], msg |-> e])
    /\ IF nanoModels[m] = "nano-banana-pro" /\ MatchesAccessDenied(e)
       THEN IF m < Len(nanoModels)
            THEN SubmitImage(m + 1) /\ UNCHANGED sThrown
            ELSE /\ sPc' = "threw"
                 /\ sThrown' = NoStartFrameError
                 /\ UNCHANGED <<sModel, sSubmits>>
       ELSE /\ sPc' = "threw"
            /\ sThrown' = e
            /\ UNCHANGED <<sModel, sSubmits>>

\* The top of the loop body for scene i: the reference-image pool, the
\* prompts and the seed, then the first provider's submission.
SceneStart ==
    /\ sPc = "start"
    /\ IF ~sPoolOk
       THEN /\ sPc' = "threw"
            /\ sThrown' = NoPoolError
            /\ UNCHANGED <<sModel, sSubmits>>
       ELSE SubmitImage(1) /\ UNCHANGED sThrown
    /\ UNCHANGED <<sPoolOk, sTalking, sImageUrl, sLastErr, sFailures, sResult>>
    /\ UNCHANGED notScene

\* falPostJson to the image provider settles.
SceneImageSubmitResponse ==
    /\ sPc = "awaitImageSubmit"
    /\ \/ /\ sPc' = "awaitImagePoll"
          /\ UNCHANGED <<sModel, sLastErr, sThrown, sSubmits, sFailures>>
       \/ \E e \in PostErrors \cup {NetworkError} : ImageFailure(sModel, e)
    /\ UNCHANGED <<sPoolOk, sTalking, sImageUrl, sResult>>
    /\ UNCHANGED notScene

\* resolveFalImageUrl settles: a URL, or its timeout error. With the start
\* frame, talking-head mode stores it as the result; otherwise the clip job
\* is submitted.
SceneImagePollDone ==
    /\ sPc = "awaitImagePoll"
    /\ \/ /\ sImageUrl' = "startFrame"
          /\ IF SkipsMotion(sTalking)
             THEN /\ sResult' = "startFrame"
                  /\ sPc' = "done"
                  /\ UNCHANGED sSubmits
             ELSE /\ sSubmits' = Append(sSubmits, [to |-> "kling", body |-> "clipBody"])
                  /\ sPc' = "awaitClipSubmit"
                  /\ UNCHANGED sResult
          /\ UNCHANGED <<sModel, sLastErr, sThrown, sFailures>>
       \/ /\ \E e \in TimeoutErrors : ImageFailure(sModel, e)
          /\ UNCHANGED <<sImageUrl, sResult>>
    /\ UNCHANGED <<sPoolOk, sTalking>>
    /\ UNCHANGED notScene

\* falPostJson(klingUrl, ...) settles; its error is not caught.
SceneClipSubmitResponse ==
    /\ sPc = "awaitClipSubmit"
    /\ \/ sPc' = "awaitClipPoll" /\ UNCHANGED sThrown
       \/ \E e \in PostErrors \cup {NetworkError} : sPc' = "threw" /\ sThrown' = e
    /\ UNCHANGED <<sPoolOk, sTalking, sModel, sImageUrl, sLastErr, sSubmits, sFailures, sResult>>
    /\ UNCHANGED notScene

\* resolveFalClipUrl settles: results[i] = clipUrl, or its timeout error.
SceneClipPollDone ==
    /\ sPc = "awaitClipPoll"
    /\ \/ sResult' = "clip" /\ sPc' = "done" /\ UNCHANGED sThrown
       \/ \E e \in TimeoutErrors : sPc' = "threw" /\ sThrown' = e /\ UNCHANGED sResult
    /\ UNCHANGED <<sPoolOk, sTalking, sModel, sImageUrl, sLastErr, sSubmits, sFailures>>
    /\ UNCHANGED notScene

SceneNext ==
    \/ SceneStart
    \/ SceneImageSubmitResponse
    \/ SceneImagePollDone
    \/ SceneClipSubmitResponse
    \/ SceneClipPollDone

SceneSpec == SceneInit /\ [][SceneNext]_vars

\* ------------------------------------------------------------ scene seeds

SeedInit ==
    /\ ExecIdle
    /\ PollIdle
    /\ hTitle \in Titles
    /\ hChatId \in ChatIds
    /\ hSceneSeeds \in SeqsUpTo(SceneSeedInputs, MaxSeedScenes)
    /\ hSeeds = <<>>
    /\ hPrevRun = <<>>
    /\ PromptIdle
    /\ MainIdle
    /\ OutIdle
    /\ CapIdle
    /\ ModeIdle
    /\ PickIdle

\* A worker reaches the next scene (for i = cursor++) and derives its seed.
DeriveSeed ==
    /\ Len(hSeeds) < Len(hSceneSeeds)
    /\ LET i == Len(hSeeds)
       IN  hSeeds' = Append(hSeeds, SceneSeed(hSceneSeeds[i + 1], hTitle, hChatId, i))
    /\ UNCHANGED <<hTitle, hChatId, hSceneSeeds, hPrevRun>>
    /\ UNCHANGED notSeed

\* The same job is run again, in a new process.
RunAgain ==
    /\ Len(hSeeds) = Len(hSceneSeeds)
    /\ hSeeds # <<>>
    /\ hPrevRun = <<>>
    /\ hPrevRun' = hSeeds
    /\ hSeeds' = <<>>
    /\ UNCHANGED <<hTitle, hChatId, hSceneSeeds>>
    /\ UNCHANGED notSeed

SeedNext ==
    \/ DeriveSeed
    \/ RunAgain

SeedSpec == SeedInit /\ [][SeedNext]_vars

\* ---------------------------------------------------------------- prompts

PromptInit ==
    /\ ExecIdle
    /\ PollIdle
    /\ SeedIdle
    /\ MainIdle
    /\ OutIdle
    /\ CapIdle
    /\ ModeIdle
    /\ PickIdle
    /\ aBase \in SeqsUpTo(PromptChars, MaxBaseLen)
    /\ aTail \in SeqsUpTo(PromptChars, MaxTailLen)
    /\ aPc = "start"
    /\ aOnce = <<>>
    /\ aTwice = <<>>

\* appendPrompt(base, tail)
AppendOnce ==
    /\ aPc = "start"
    /\ aOnce' = appendPrompt(aBase, aTail)
    /\ aPc' = "once"
    /\ UNCHANGED <<aBase, aTail, aTwice>>
    /\ UNCHANGED notPrompt

\* appendPrompt applied to a prompt that went through it before.
AppendAgain ==
    /\ aPc = "once"
    /\ aTwice' = appendPrompt(aOnce, aTail)
    /\ aPc' = "twice"
    /\ UNCHANGED <<aBase, aTail, aOnce>>
    /\ UNCHANGED notPrompt

PromptNext ==
    \/ AppendOnce
    \/ AppendAgain

PromptSpec == PromptInit /\ [][PromptNext]_vars

\* ----------------------------------------------------------------- main()

MainInit ==
    /\ ExecIdle
    /\ PollIdle
    /\ SeedIdle
    /\ PromptIdle
    /\ OutIdle
    /\ CapIdle
    /\ ModeIdle
    /\ PickIdle
    /\ mModeFlag \in BOOLEAN
    /\ mScenes \in SeqsUpTo(SceneDurations, MaxScenes)
    /\ mClipUrls \in 0..MaxClipInputs
    /\ mReqs \in 0..MaxClipInputs
    /\ mTruthyReqs \in 0..mReqs
    /\ mFalKey \in BOOLEAN
    /\ mAudioUrl \in BOOLEAN
    /\ mNarration \in BOOLEAN
    /\ mWebhook \in BOOLEAN
    /\ mPc = "start"
    /\ mTalking = FALSE
    /\ mClips = 0
    /\ mAudioSrc = FALSE
    /\ mAudioDuration = 0
    /\ mTimeline = 0
    /\ mSubtitles = 0
    /\ mLog = <<>>
    /\ mError = ""
    /\ mExit = -1
    /\ mVideoUrl = ""
    /\ mCallbacks = <<>>

Stop(pc, clips, log, err) == [pc |-> pc, clips |-> clips, log |-> log, err |-> err]

\* main() from the check of remoteClipUrls.length to the await of its audio
\* source ("silent": no await, the render is next).
EnterAudio(clips, log) ==
    IF clips = 0 THEN Stop("catch", clips, log, "noClips")
    ELSE IF Synthesizes(mAudioUrl, mNarration)
    THEN Stop("awaitSynth", clips, Append(log, "synth"), "")
    ELSE IF mAudioUrl THEN Stop("awaitDownload", clips, Append(log, "download"), "")
    ELSE Stop("silent", clips, log, "")

\* main() from the scene-generation guard on.
EnterSceneGen(clips, scenes, log) ==
    IF GeneratesScenes(clips, scenes)
    THEN IF ~mFalKey THEN Stop("catch", clips, log, "falKey")
         ELSE Stop("awaitSceneGen", clips, Append(log, "sceneGen"), "")
    ELSE EnterAudio(clips, log)

\* main() from the clip-request guard on; resolveClipUrlsFromFal throws
\* without FAL_KEY and returns [] when no request is truthy.
EnterClipRequests(clips, scenes, log) ==
    IF ResolvesRequests(clips, mReqs)
    THEN IF ~mFalKey THEN Stop("catch", clips, Append(log, "clipRequests"), "clipRequests")
         ELSE IF mTruthyReqs = 0 THEN EnterSceneGen(0, scenes, Append(log, "clipRequests"))
         ELSE Stop("awaitClipRequests", clips, Append(log, "clipRequests"), "")
    ELSE EnterSceneGen(clips, scenes, log)

\* The durations main() computes before it builds renderProps, and the
\* await of the bundle and render.
ToRender(scenes, talking, clips, hasSrc, measured, log) ==
    LET audio == IF hasSrc THEN measured ELSE SilentDuration(scenes, clips)
        timeline == TimelineSeconds(scenes, audio, clips, talking)
    IN  /\ mAudioSrc' = hasSrc
        /\ mAudioDuration' = audio
        /\ mTimeline' = timeline
        /\ mSubtitles' = SubtitlesSeconds(audio, timeline)
        /\ mLog' = Append(IF hasSrc THEN log ELSE Append(log, "silent"), "render")
        /\ mPc' = "awaitRender"
        /\ mError' = ""

\* main() runs on from the clip stage to its next await.
Proceed(r, scenes, talking) ==
    /\ mClips' = r.clips
    /\ IF r.pc = "silent"
       THEN ToRender(scenes, talking, r.clips, FALSE, 0, r.log)
       ELSE /\ mPc' = r.pc
            /\ mLog' = r.log
            /\ mError' = r.err
            /\ UNCHANGED <<mAudioSrc, mAudioDuration, mTimeline, mSubtitles>>

\* The awaited stage threw: main() rejects and main().catch runs next.
Fail(stage) ==
    /\ mPc' = "catch"
    /\ mError' = stage
    /\ UNCHANGED <<mClips, mAudioSrc, mAudioDuration, mTimeline, mSubtitles, mLog>>

mInputs == <<mModeFlag, mClipUrls, mReqs, mTruthyReqs, mFalKey, mAudioUrl, mNarration,
             mWebhook>>

\* What the stages before the upload leave alone.
mDelivery == <<mVideoUrl, mCallbacks>>

\* main() up to its first await: the mode, the scenes, the clip URLs.
MainStart ==
    /\ mPc = "start"
    /\ LET talking == isTalkingHeadInput(VideoModeOf(mModeFlag), 0, FALSE, mScenes)
           scenes == ScenesOfJob(talking, mScenes)
       IN  /\ mTalking' = talking
           /\ mScenes' = scenes
           /\ Proceed(EnterClipRequests(mClipUrls, scenes, <<>>), scenes, talking)
    /\ UNCHANGED <<mInputs, mExit>>
    /\ UNCHANGED mDelivery
    /\ UNCHANGED notMain

\* await resolveClipUrlsFromFal(input.clipRequests) returns or throws.
ClipRequestsDone ==
    /\ mPc = "awaitClipRequests"
    /\ \/ Proceed(EnterSceneGen(mTruthyReqs, mScenes, mLog), mScenes, mTalking)
       \/ Fail("clipRequests")
    /\ UNCHANGED <<mInputs, mScenes, mTalking, mExit>>
    /\ UNCHANGED mDelivery
    /\ UNCHANGED notMain

\* await generateClipsFromScenes(input) returns or throws.
SceneGenDone ==
    /\ mPc = "awaitSceneGen"
    /\ \/ Proceed(EnterAudio(Len(mScenes), mLog), mScenes, mTalking)
       \/ Fail("sceneGen")
    /\ UNCHANGED <<mInputs, mScenes, mTalking, mExit>>
    /\ UNCHANGED mDelivery
    /\ UNCHANGED notMain

\* await downloadToFile(input.audioUrl, audioPath), then fileToDataUri.
DownloadDone ==
    /\ mPc = "awaitDownload"
    /\ \/ /\ mPc' = "awaitDuration"
          /\ mAudioSrc' = TRUE
          /\ mLog' = Append(mLog, "measure")
          /\ UNCHANGED <<mClips, mAudioDuration, mTimeline, mSubtitles, mError>>
       \/ Fail("download")
    /\ UNCHANGED <<mInputs, mScenes, mTalking, mExit>>
    /\ UNCHANGED mDelivery
    /\ UNCHANGED notMain

\* await synthesizeVoiceoverElevenLabs(...): audio written, or an error
\* (no ELEVENLABS_API_KEY, empty text, provider error) that main() catches.
SynthDone ==
    /\ mPc = "awaitSynth"
    /\ \/ /\ mPc' = "awaitDuration"
          /\ mAudioSrc' = TRUE
          /\ mLog' = Append(mLog, "measure")
          /\ UNCHANGED <<mClips, mAudioDuration, mTimeline, mSubtitles, mError>>
       \/ IF SynthFailureCaught = "silent"
          THEN /\ ToRender(mScenes, mTalking, mClips, FALSE, 0, Append(mLog, "synthFailed"))
               /\ UNCHANGED mClips
          ELSE Fail("synth")
    /\ UNCHANGED <<mInputs, mScenes, mTalking, mExit>>
    /\ UNCHANGED mDelivery
    /\ UNCHANGED notMain

\* await getAudioDuration(audioPath)
AudioMeasured ==
    /\ mPc = "awaitDuration"
    /\ \E d \in AudioDurations : ToRender(mScenes, mTalking, mClips, TRUE, d, mLog)
    /\ UNCHANGED <<mInputs, mScenes, mTalking, mClips, mExit>>
    /\ UNCHANGED mDelivery
    /\ UNCHANGED notMain

\* main() moves from one awaited stage to the next.
Advance(pc, stage) ==
    /\ mPc' = pc
    /\ mLog' = Append(mLog, stage)
    /\ UNCHANGED <<mClips, mAudioSrc, mAudioDuration, mTimeline, mSubtitles, mError>>

\* The last statements of main(): the GITHUB_OUTPUT line, then the process
\* ends on its own with exit code 0.
Finish ==
    /\ mPc' = "done"
    /\ mExit' = 0
    /\ UNCHANGED <<mClips, mAudioSrc, mAudioDuration, mTimeline, mSubtitles, mLog, mError>>

\* await bundle, selectComposition, renderMedia
RenderDone ==
    /\ mPc = "awaitRender"
    /\ \/ Advance("awaitNormalize", "normalize")
       \/ Fail("render")
    /\ UNCHANGED <<mInputs, mScenes, mTalking, mExit>>
    /\ UNCHANGED mDelivery
    /\ UNCHANGED notMain

\* await normalizeOutputVideo(...): the normalized file, the rendered file
\* kept (no ffmpeg, ffmpeg failed), or a spawn error of runCmd.
NormalizeDone ==
    /\ mPc = "awaitNormalize"
    /\ \/ Advance("awaitUpload", "upload")
       \/ Fail("normalize")
    /\ UNCHANGED <<mInputs, mScenes, mTalking, mExit>>
    /\ UNCHANGED mDelivery
    /\ UNCHANGED notMain

\* The public URLs uploadToSupabase can return: the key holds Date.now().
UploadUrls == {"public/videos/t1-title.mp4", "public/videos/t2-title.mp4"}

SuccessBodyWithoutUrl(url) == [status |-> "success", videoUrl |-> "", delivered |-> FALSE]
\* body: JSON.stringify({ videoUrl, status: "success", title, chatId })
SuccessBody(url) == [status |-> "success", videoUrl |-> url, delivered |-> FALSE]

\* body: JSON.stringify({ status: "failed", error, title, chatId })
FailureBody == [status |-> "failed", videoUrl |-> "", delivered |-> FALSE]

\* await uploadToSupabase(...) returns the public URL or throws; then the
\* success callback is requested if a webhook is configured.
\* if (outputFile) fs.appendFileSync(outputFile, ...), which throws when the
\* file cannot be written, and the end of main().
WriteOutput ==
    \/ Finish
    \/ Fail("githubOutput") /\ UNCHANGED mExit

UploadDone ==
    /\ mPc = "awaitUpload"
    /\ \/ \E url \in UploadUrls :
            /\ mVideoUrl' = url
            /\ IF mWebhook
               THEN /\ Advance("awaitCallback", "callback")
                    /\ mCallbacks' = Append(mCallbacks, SuccessBody(url))
                    /\ UNCHANGED mExit
               ELSE /\ WriteOutput
                    /\ UNCHANGED mCallbacks
       \/ Fail("upload") /\ UNCHANGED <<mExit, mDelivery>>
    /\ UNCHANGED <<mInputs, mScenes, mTalking>>
    /\ UNCHANGED notMain

\* await fetch(webhookUrl, ...) of the success callback: the webhook's
\* response, whatever its status, or a network error.
CallbackDone ==
    /\ mPc = "awaitCallback"
    /\ \/ /\ WriteOutput
          /\ mCallbacks' = [mCallbacks EXCEPT ![Len(mCallbacks)].delivered = TRUE]
       \/ Fail("callback") /\ UNCHANGED <<mExit, mCallbacks>>
    /\ UNCHANGED <<mInputs, mScenes, mTalking, mVideoUrl>>
    /\ UNCHANGED notMain

\* main().catch: the error note, fetch(webhookUrl, ...) of the failure
\* callback, not awaited, and process.exit(1) in the same turn: the request
\* is created, and the process ends before any of its I/O runs.
MainFailure ==
    /\ mPc = "catch"
    /\ mPc' = "exited"
    /\ mExit' = 1
    /\ mLog' = Append(mLog, "failureHandling")
    /\ mCallbacks' = IF mWebhook THEN Append(mCallbacks, FailureBody) ELSE mCallbacks
    /\ UNCHANGED <<mInputs, mScenes, mTalking, mClips, mAudioSrc, mAudioDuration,
                   mTimeline, mSubtitles, mError, mVideoUrl>>
    /\ UNCHANGED notMain

MainNext ==
    \/ MainStart
    \/ ClipRequestsDone
    \/ SceneGenDone
    \/ DownloadDone
    \/ SynthDone
    \/ AudioMeasured
    \/ RenderDone
    \/ NormalizeDone
    \/ UploadDone
    \/ CallbackDone
    \/ MainFailure

MainSpec == MainInit /\ [][MainNext]_vars

\* -------------------------------------------- normalization and upload

\* const crop = cropIsMeaningful ? cropRaw : ""
AppliedCropAlways(crop, pre) == crop

AppliedCrop(crop, pre) == IF cropIsMeaningful(crop, pre) THEN crop ELSE NoCrop

OutInit ==
    /\ ExecIdle
    /\ PollIdle
    /\ SeedIdle
    /\ PromptIdle
    /\ MainIdle
    /\ CapIdle
    /\ ModeIdle
    /\ PickIdle
    /\ oFfmpeg \in BOOLEAN
    /\ oFfprobe \in BOOLEAN
    /\ oEnvOk \in BOOLEAN
    /\ oPc = "start"
    /\ oPre = NoGeometry
    /\ oCrop = NoCrop
    /\ oEncode = -1
    /\ oPath = ""
    /\ oCmds = <<>>
    /\ oHttp = <<>>
    /\ oReplies = <<>>
    /\ oError = ""

oEnv == <<oFfmpeg, oFfprobe, oEnvOk>>

\* A promise of runCmd rejects (the 'error' event of spawn): nothing in
\* probeVideo, detectCrop or normalizeOutputVideo catches it, main() rejects.
OutThrows(error) ==
    /\ oPc' = "threw"
    /\ oError' = error

\* normalizeOutputVideo returns path; main() calls uploadToSupabase with it:
\* the check of the environment, then the first uploadOnce().
ReturnPath(path) ==
    /\ oPath' = path
    /\ IF ~oEnvOk
       THEN /\ OutThrows("supabaseEnv")
            /\ UNCHANGED oHttp
       ELSE /\ oPc' = "awaitUpload"
            /\ oHttp' = Append(oHttp, [to |-> "upload", file |-> path])
            /\ UNCHANGED oError

\* await commandExists("ffmpeg") in normalizeOutputVideo
NormStart ==
    /\ oPc = "start"
    /\ IF ~oFfmpeg
       THEN ReturnPath("input")
       ELSE /\ oPc' = "probe"
            /\ UNCHANGED <<oPath, oHttp, oError>>
    /\ UNCHANGED <<oEnv, oPre, oCrop, oEncode, oCmds, oReplies>>
    /\ UNCHANGED notOut

\* await probeVideo(inputPath): no ffprobe, a non-zero exit code or
\* unparseable output give no geometry.
ProbeDone ==
    /\ oPc = "probe"
    /\ \/ /\ oPre' = NoGeometry
          /\ oCmds' = IF oFfprobe THEN Append(oCmds, "ffprobe") ELSE oCmds
          /\ oPc' = "crop"
          /\ UNCHANGED oError
       \/ /\ oFfprobe
          /\ \E g \in Geometries : oPre' = g
          /\ oCmds' = Append(oCmds, "ffprobe")
          /\ oPc' = "crop"
          /\ UNCHANGED oError
       \/ /\ oFfprobe
          /\ OutThrows("spawn ffprobe")
          /\ oCmds' = Append(oCmds, "ffprobe")
          /\ UNCHANGED oPre
    /\ UNCHANGED <<oEnv, oCrop, oEncode, oPath, oHttp, oReplies>>
    /\ UNCHANGED notOut

\* await detectCrop(inputPath), then the filter, then the encode is started.
CropDone ==
    /\ oPc = "crop"
    /\ \/ \E c \in CropResults :
            /\ oCrop' = AppliedCrop(c, oPre)
            /\ oCmds' = oCmds \o <<"cropdetect", "encode">>
            /\ oPc' = "encode"
            /\ UNCHANGED oError
       \/ /\ OutThrows("spawn ffmpeg cropdetect")
          /\ oCmds' = Append(oCmds, "cropdetect")
          /\ UNCHANGED oCrop
    /\ UNCHANGED <<oEnv, oPre, oEncode, oPath, oHttp, oReplies>>
    /\ UNCHANGED notOut

\* await runCmd("ffmpeg", [... encode ...])
EncodeDone ==
    /\ oPc = "encode"
    /\ \/ /\ oEncode' = 0
          /\ oPc' = "postProbe"
          /\ UNCHANGED <<oPath, oHttp, oError>>
       \/ /\ oEncode' = 1
          /\ ReturnPath("input")
       \/ /\ OutThrows("spawn ffmpeg encode")
          /\ UNCHANGED <<oEncode, oPath, oHttp>>
    /\ UNCHANGED <<oEnv, oPre, oCrop, oCmds, oReplies>>
    /\ UNCHANGED notOut

\* await probeVideo(outPath)
PostProbeDone ==
    /\ oPc = "postProbe"
    /\ \/ /\ ReturnPath("out")
          /\ oCmds' = IF oFfprobe THEN Append(oCmds, "ffprobe") ELSE oCmds
       \/ /\ oFfprobe
          /\ OutThrows("spawn ffprobe")
          /\ oCmds' = Append(oCmds, "ffprobe")
          /\ UNCHANGED <<oPath, oHttp>>
    /\ UNCHANGED <<oEnv, oPre, oCrop, oEncode, oReplies>>
    /\ UNCHANGED notOut

\* let uploadRes = await uploadOnce(), and its body when the status is 400
UploadReply ==
    /\ oPc = "awaitUpload"
    /\ \E r \in UploadReplies :
         /\ oReplies' = Append(oReplies, r)
         /\ IF r.status = 0 THEN OutThrows("network") /\ UNCHANGED oHttp
            ELSE IF IsOk(r) THEN oPc' = "uploaded" /\ UNCHANGED <<oHttp, oError>>
            ELSE IF BucketMissing(r)
            THEN /\ oPc' = "awaitCreate"
                 /\ oHttp' = Append(oHttp, [to |-> "bucket", file |-> ""])
                 /\ UNCHANGED oError
            ELSE OutThrows("upload failed") /\ UNCHANGED oHttp
    /\ UNCHANGED <<oEnv, oPre, oCrop, oEncode, oPath, oCmds>>
    /\ UNCHANGED notOut

\* await ensureBucket(), then the second uploadOnce()
CreateReply ==
    /\ oPc = "awaitCreate"
    /\ \E r \in CreateReplies :
         /\ oReplies' = Append(oReplies, r)
         /\ IF r.status = 0 THEN OutThrows("network") /\ UNCHANGED oHttp
            ELSE IF CreateAccepted(r)
            THEN /\ oPc' = "awaitRetry"
                 /\ oHttp' = Append(oHttp, [to |-> "upload", file |-> oPath])
                 /\ UNCHANGED oError
            ELSE OutThrows("bucket create failed") /\ UNCHANGED oHttp
    /\ UNCHANGED <<oEnv, oPre, oCrop, oEncode, oPath, oCmds>>
    /\ UNCHANGED notOut

\* uploadRes = await uploadOnce() of the retry
RetryReply ==
    /\ oPc = "awaitRetry"
    /\ \E r \in UploadReplies :
         /\ oReplies' = Append(oReplies, r)
         /\ IF r.status = 0 THEN OutThrows("network")
            ELSE IF IsOk(r) THEN oPc' = "uploaded" /\ UNCHANGED oError
            ELSE OutThrows("upload failed")
    /\ UNCHANGED <<oEnv, oPre, oCrop, oEncode, oPath, oCmds, oHttp>>
    /\ UNCHANGED notOut

OutNext ==
    \/ NormStart
    \/ ProbeDone
    \/ CropDone
    \/ EncodeDone
    \/ PostProbeDone
    \/ UploadReply
    \/ CreateReply
    \/ RetryReply

OutSpec == OutInit /\ [][OutNext]_vars

\* ------------------------------------------------------------- captions

MaxNarrationWords == 4

\* fps of the composition
Fps == 30

Hello == <<72, 101, 108, 108, 111>>
There == <<116, 104, 101, 114, 101, 46>>                                \* there.
How == <<72, 111, 119>>
Are == <<97, 114, 101>>
You == <<121, 111, 117, 63>>                                            \* you?
So == <<115, 111, 44>>                                                  \* so,
Magnetic == <<109, 97, 103, 110, 101, 116, 105, 99, 33>>                \* magnetic!
International ==
    <<105, 110, 116, 101, 114, 110, 97, 116, 105, 111, 110, 97, 108>>   \* international

\* "Hello there. How are you?"
Scenario == <<Hello, There, How, Are, You>>

\* "are are are so, are"
SoftScenario == <<Are, Are, Are, So, Are>>

Vocabulary == {There, Are, You, So, Magnetic, International}

\* audioDurationInSeconds, in tenths of a second
Durations == {0, 37, 40}

\* { maxWords, maxChars } in halves: the call of the component (6, 28), a
\* tighter pair (2.5, 12.5), a wider one (7, 28), and a pair below the
\* minimums (0, 5).
CaptionOpts ==
    {[maxWords |-> 12, maxChars |-> 56],
     [maxWords |-> 5, maxChars |-> 25],
     [maxWords |-> 14, maxChars |-> 56],
     [maxWords |-> 0, maxChars |-> 10]}

RECURSIVE Narration(_, _)
\* A narration of the given words, separated by sep, with a leading space.
Narration(words, sep) ==
    IF words = <<>> THEN <<32>> ELSE <<32>> \o Head(words) \o sep \o Narration(Tail(words), sep)

\* Two scenes narrating the given words.
ScenesOf(words) ==
    LET cut == (Len(words) + 1) \div 2
    IN  <<Narration(SubSeq(words, 1, cut), <<>>),
          Narration(SubSeq(words, cut + 1, Len(words)), <<10, 9>>)>>

CapInit ==
    /\ ExecIdle
    /\ PollIdle
    /\ SeedIdle
    /\ PromptIdle
    /\ MainIdle
    /\ OutIdle
    /\ ModeIdle
    /\ PickIdle
    /\ \E words \in SeqsUpTo(Vocabulary, MaxNarrationWords) \cup {Scenario, SoftScenario} :
         cScenes = ScenesOf(words)
    /\ cDuration \in Durations
    /\ cOpts \in CaptionOpts
    /\ cPc = "start"
    /\ cWeights = <<>>
    /\ cTimeline = <<>>
    /\ cGroups = <<>>

\* useMemo(() => buildWordTimeline(scenes, audioDurationInSeconds, fps));
\* if (timeline.length === 0) return null
BuildTimeline ==
    /\ cPc = "start"
    /\ cWeights' = WeightsOf(AllWords(cScenes))
    /\ cTimeline' = buildWordTimeline(cScenes, cDuration, Fps)
    /\ cPc' = IF cTimeline' = <<>> THEN "null" ELSE "timeline"
    /\ UNCHANGED <<cScenes, cDuration, cOpts, cGroups>>
    /\ UNCHANGED notCap

\* useMemo(() => buildCaptionGroups(timeline, opts))
BuildGroups ==
    /\ cPc = "timeline"
    /\ cGroups' = buildCaptionGroups(cTimeline, cOpts)
    /\ cPc' = "groups"
    /\ UNCHANGED <<cScenes, cDuration, cOpts, cWeights, cTimeline>>
    /\ UNCHANGED notCap

CapNext ==
    \/ BuildTimeline
    \/ BuildGroups

CapSpec == CapInit /\ [][CapNext]_vars

\* ------------------------------------------------- claims: the worker pool

InFlight == {i \in TaskIds : taskState[i] = "running"}

Created == {w \in Workers : wState[w] # "idle"}

ClaimedLimit == IF batchKind = "clipRequests" THEN 3 ELSE 2

\* C1: when every task of a batch succeeds, the returned array has length N
\* and element i is the outcome of task i, whatever the completion order.
C1_ResultsInTaskOrder ==
    (nTasks > 0 /\ \A i \in TaskIds : taskState[i] = "ok")
        => /\ batch = "resolved"
           /\ Len(returned) = nTasks
           /\ \A i \in TaskIds : returned[i + 1].task = i /\ returned[i + 1] = results[i]

\* C1 witness: a batch of three or more resolved although a later task
\* completed before an earlier one.
C1_Witness ==
    /\ batch = "resolved"
    /\ nTasks >= 3
    /\ \E a, b \in 1..Len(doneOrder) : a < b /\ doneOrder[a] > doneOrder[b]

\* C2: at most C tasks (3 for clip requests, 2 for scenes) are started and
\* unfinished in any state, and exactly min(C, N) workers are created.
C2_AtMostCInFlight ==
    /\ Cardinality(InFlight) <= ClaimedLimit
    /\ batch \in {"pending", "resolved"} => Cardinality(Created) = Min(ClaimedLimit, nTasks)

\* C2 witness: the limit is reached while further tasks wait.
C2_Witness ==
    /\ Cardinality(InFlight) = ClaimedLimit
    /\ \E i \in TaskIds : taskState[i] = "pending"

\* C3: the cursor hands every index to at most one worker and skips none
\* (the indices handed out are exactly those below the cursor), every index
\* has been handed out once all workers returned, and no result slot has two
\* writers.
C3_CursorAssignsOnce ==
    /\ \A i \in TaskIds : started[i] <= 1 /\ Cardinality(writers[i]) <= 1
    /\ \A i \in TaskIds : started[i] = 1 <=> i < cursor
    /\ batch = "resolved" => \A i \in TaskIds : started[i] = 1

\* C3 witness: more tasks than workers, all handed out, written by at least
\* two different workers.
C3_Witness ==
    /\ batch = "resolved"
    /\ nTasks > ClaimedLimit
    /\ \E i, j \in TaskIds : writers[i] # writers[j]

\* C4 (as claimed): the batch has not failed, and main() has not moved on or
\* started its failure handling, while a task of the batch is in flight.
C4_FailureOnlyAfterAllWorkers ==
    (batch = "rejected" \/ mainPc \in {"catch", "exited", "nextStage"}) => InFlight = {}

\* C5 (as claimed): whatever tasks fail, every task index is started and runs
\* to its own outcome before the invocation is over.
C5_SiblingsRunToOutcome ==
    (batch # "notStarted" /\ hasFalKey /\ mainPc \in {"exited", "nextStage"})
        => \A i \in TaskIds : taskState[i] \in {"ok", "failed"}

\* --------------------------------------------------- claims: the job poller

\* The status values that say the job is still queued or running.
InProgressStatuses == {"IN_QUEUE", "IN_PROGRESS"}

\* The status phase of the current cycle is over.
StatusPhaseOver == pCycles > 0 /\ pPc \in {"awaitResult", "sleeping", "returned", "failed"}

\* C6 (as claimed): a status of FAILED, ERROR or CANCELLED ends the poll in
\* that cycle with a failure error raised to the caller.
C6_TerminalStatusEndsPoll ==
    pStatus \in TerminalStatuses => pPc = "failed"

\* C7 (as claimed): with a result URL, the result endpoint is queried in a
\* cycle exactly when the status read is neither a still-in-progress value
\* nor FAILED/ERROR/CANCELLED.
C7_QueriedUnlessInProgressOrTerminal ==
    (StatusPhaseOver /\ ResultUrlOf(pReq) # "")
        => (pQueried <=> pStatus \notin (InProgressStatuses \cup TerminalStatuses))

\* C7 (amended): with a result URL, the result endpoint is queried in a cycle
\* exactly when the status read is COMPLETED or no status was obtained; for
\* every other value (in progress, FAILED/ERROR/CANCELLED, unrecognised) and
\* whenever there is no result URL it is not queried.
C7_QueriedIffCompletedOrNoStatus ==
    StatusPhaseOver
        => (pQueried <=> (ResultUrlOf(pReq) # "" /\ pStatus \in {"", "COMPLETED"}))

\* C7 witness: a cycle that read an unrecognised status and went to sleep
\* without asking for the result, after an earlier cycle that did ask.
C7_Witness ==
    /\ pPc = "sleeping"
    /\ pStatus = "OK"
    /\ ResultUrlOf(pReq) # ""
    /\ ~pQueried
    /\ pHttp >= 3

C8_Safe ==
    /\ pPc # "failed"
    /\ pPc = "returned" <=> pUrl # "none"
    /\ pPc = "timedOut" => pNow >= pDeadline
    /\ pCycles > 0 => pCycleStart < pDeadline

\* C8: a poll ends only by returning an artifact URL or by the timeout error,
\* no cycle is entered at or after the deadline, and the poll terminates when
\* every HTTP call and sleep returns.
C8_EndsByUrlOrTimeout == []C8_Safe /\ <>PollTerminated

\* C8 witness: the timeout, after cycles that saw a terminal status and a
\* failed request.
C8_Witness ==
    /\ pPc = "timedOut"
    /\ pCycles >= 2
    /\ pErrors >= 2

\* C9: a failed status or result request does not end the poll; after the
\* sleep (at least one poll interval) another cycle runs if the deadline has
\* not passed; and a result that contains an artifact URL is returned.
C9_RequestErrorsAreRetried ==
    [][ /\ (pPc = "awaitStatus" /\ pLast' = "statusError")
            => pPc' \in {"awaitResult", "sleeping"}
        /\ (pPc = "awaitResult" /\ pLast' \in {"resultError", "resultStill"})
            => pPc' = "sleeping"
        /\ pPc = "sleeping"
            => /\ pNow' >= pNow + PollTicks
               /\ IF pNow' < pDeadline
                  THEN pCycles' = pCycles + 1 /\ pPc' \in {"awaitStatus", "awaitResult", "sleeping"}
                  ELSE pPc' = "timedOut"
        /\ (pPc = "awaitResult" /\ pLast' = "resultArtifact")
            => pPc' = "returned" /\ pUrl' = "fromResult"
      ]_vars

\* C9 witness: a URL returned from the result after both kinds of request
\* error were caught in earlier cycles.
C9_Witness ==
    /\ pPc = "returned"
    /\ pUrl = "fromResult"
    /\ pErrors >= 2
    /\ pCycles >= 2

\* ------------------------------------------------ claims: the image chain

\* An access-denied failure in the claim's words: HTTP 401 or 403, or the
\* body "Cannot access application".
ClaimedAccessDenied(msg) ==
    msg.kind = "post" /\ (msg.status \in {401, 403} \/ msg.text = "Cannot access application")

SubmittedTo(label) == {j \in 1..Len(sSubmits) : sSubmits[j].to = label}

\* C10: once the primary provider has failed with an access-denied error, the
\* same scene-image request has been submitted to the secondary provider,
\* after the primary's; so the scene has not failed without the secondary
\* being tried.
C10_AccessDeniedFallsBack ==
    \A k \in 1..Len(sFailures) :
        (sFailures[k].label = "nano-banana-pro" /\ ClaimedAccessDenied(sFailures[k].msg))
            => \E a \in SubmittedTo("nano-banana-pro"), b \in SubmittedTo("nano-banana") :
                   a < b /\ sSubmits[a].body = sSubmits[b].body

\* C10 witness: the primary failed with a plain 403, and the scene failed on
\* the secondary's own failure.
C10_Witness ==
    /\ sPc = "threw"
    /\ Len(sFailures) = 2
    /\ sFailures[1].label = "nano-banana-pro"
    /\ sFailures[1].msg = [kind |-> "post", status |-> 403, text |-> "other"]
    /\ sFailures[2].label = "nano-banana"
    /\ sThrown = sFailures[2].msg

\* The scene's task threw the error of provider failure k and nothing was
\* submitted after it.
FailedAt(k) ==
    /\ sPc = "threw"
    /\ sThrown = sFailures[k].msg
    /\ k = Len(sFailures)
    /\ Len(sSubmits) = k

\* C11 (as claimed): a provider failure that is not an access-denied error
\* (HTTP 401/403 or "Cannot access application"), and any failure of the
\* secondary provider, fails the scene at once with that error, no further
\* provider being contacted.
C11_OtherFailuresAreFatal ==
    \A k \in 1..Len(sFailures) :
        (~ClaimedAccessDenied(sFailures[k].msg) \/ sFailures[k].label = "nano-banana")
            => FailedAt(k)

\* C12: in talking-head mode no motion job is submitted and a finished
\* scene's result is its start image; otherwise exactly one motion job is
\* submitted once the start image has resolved, none before, and a finished
\* scene's result is the clip.
C12_MotionOnlyOutsideTalkingHead ==
    /\ sTalking => /\ SubmittedTo("kling") = {}
                   /\ sPc = "done" => sResult = "startFrame" /\ sImageUrl = "startFrame"
    /\ ~sTalking => /\ Cardinality(SubmittedTo("kling")) = IF sImageUrl = "" THEN 0 ELSE 1
                    /\ sPc = "done" => sResult = "clip"
    /\ SubmittedTo("kling") # {} => sSubmits[Len(sSubmits)].to = "kling"

\* C12 witness: a talking-head scene done with its start frame, obtained
\* from the secondary provider.
C12_Witness ==
    /\ sTalking
    /\ sPc = "done"
    /\ sResult = "startFrame"
    /\ Len(sSubmits) = 2

ExpectedType(u) == IF talkingHead THEN looksLikeImageUrl(u) ELSE looksLikeVideoUrl(u)

\* C13: generateClipsFromScenes returns successfully only if every scene's
\* slot holds an image URL (talking-head) or a video URL (otherwise); once
\* the stage is over with a slot of another kind, it has failed.
C13_SceneBatchReturnsExpectedType ==
    batchKind = "scenes" =>
        /\ batch = "resolved" => \A i \in TaskIds : ExpectedType(results[i])
        /\ (mainPc \in {"nextStage", "catch", "exited"}
              /\ \E i \in TaskIds : ~ExpectedType(results[i]))
            => batch = "rejected"

\* C13 witness: a talking-head scene batch returned with an image in its slot.
C13_Witness ==
    /\ batchKind = "scenes"
    /\ talkingHead
    /\ batch = "resolved"
    /\ nTasks = 1
    /\ results[0].kind = "image"
    /\ returned = <<results[0]>>

\* ------------------------------------------------------ claims: scene seeds

\* Scenes reached so far whose seed comes from the hash.
Hashed == {i \in 0..(Len(hSeeds) - 1) : ~HasNumericSeed(hSceneSeeds[i + 1])}

HashOf(i) == HashBits(SeedString(hTitle, hChatId, i))

SameOnRerun ==
    hPrevRun # <<>> => \A k \in 1..Len(hSeeds) : hSeeds[k] = hPrevRun[k]

\* C14 (as claimed): without explicit seeds, the seeds of two different scene
\* indices of a job differ, and a re-run derives the same seeds.
C14_SeedsOfDistinctScenesDiffer ==
    /\ \A i, j \in Hashed : i # j => hSeeds[i + 1] # hSeeds[j + 1]
    /\ SameOnRerun

\* C14 (amended): a re-run derives the same seeds; the 32-bit hashes of two
\* different scene indices with equally many digits differ, and their seeds
\* are equal exactly when one hash is the negative of the other.
C14_SeedsDifferUnlessOppositeHashes ==
    /\ \A i, j \in Hashed :
         (i # j /\ Len(Decimal(i)) = Len(Decimal(j)))
            => /\ HashOf(i) # HashOf(j)
               /\ hSeeds[i + 1] = hSeeds[j + 1] <=> HashOf(i) = Negated(HashOf(j))
    /\ SameOnRerun

\* C14 witness: in a re-run, two scenes without explicit seed have received
\* the same seed, from opposite hashes.
C14_Witness ==
    /\ hPrevRun # <<>>
    /\ \E i, j \in Hashed :
         /\ i # j
         /\ hSeeds[i + 1] = hSeeds[j + 1]
         /\ IsNegative(HashOf(i)) # IsNegative(HashOf(j))

\* -------------------------------------------------------- claims: prompts

FoldCase(str) == [k \in 1..Len(str) |-> IF str[k] = UpperA THEN 97 ELSE str[k]]

\* b contains t, compared without regard to case.
ContainsIgnoringCase(b, t) ==
    \E k \in 0..(Len(b) - Len(t)) : FoldCase(SubSeq(b, k + 1, k + Len(t))) = FoldCase(t)

\* C15: appending the clause to a prompt that already went through
\* appendPrompt changes nothing, and when the base contains the clause, case
\* ignored, the result is the trimmed base.
C15_AppendPromptIdempotent ==
    /\ aPc = "twice" => aTwice = aOnce
    /\ (aPc \in {"once", "twice"} /\ ContainsIgnoringCase(aBase, aTail))
         => aOnce = clean(aBase)

\* C15 witness: the clause is found in the base only when case is ignored,
\* the base needed trimming, and the clause was appended to the result again.
C15_Witness ==
    /\ aPc = "twice"
    /\ clean(aTail) # <<>>
    /\ ContainsIgnoringCase(aBase, aTail)
    /\ ~includes(aBase, aTail)
    /\ clean(aBase) # aBase
    /\ aTwice = clean(aBase)

\* ---------------------------------------------------------- claims: main()

Did(stage) == \E k \in 1..Len(mLog) : mLog[k] = stage

AudioOrRenderStages == {"download", "synth", "measure", "silent", "render", "normalize",
                        "upload", "callback"}

PastClipStage == mPc \notin {"start", "awaitClipRequests", "awaitSceneGen"}

\* C16: with a valid clip URL neither clip requests nor scene generation
\* start; clip requests are resolved only without a valid URL; scenes are
\* generated only when neither gave a clip and scenes exist; without any clip
\* the job fails before an audio or render step.
C16_ClipSourcePriority ==
    /\ mClipUrls > 0 => ~Did("clipRequests") /\ ~Did("sceneGen")
    /\ Did("clipRequests") => mClipUrls = 0 /\ mReqs > 0
    /\ Did("sceneGen") => /\ mClipUrls = 0
                          /\ ~Did("clipRequests") \/ mTruthyReqs = 0
                          /\ Len(mScenes) > 0
    /\ (\E st \in AudioOrRenderStages : Did(st)) => mClips > 0
    /\ (PastClipStage /\ mClips = 0) => mPc \in {"catch", "exited"} /\ mError # ""

\* C16 witness: the clip requests gave no clip, so the scenes were generated
\* and the render began with them.
C16_Witness ==
    /\ Did("clipRequests")
    /\ Did("sceneGen")
    /\ Did("render")
    /\ mClips = Len(mScenes)

\* C17: speech is synthesized only when no audio URL was supplied, and the
\* synthetic silent duration is used only when neither a supplied audio URL
\* nor synthesis produced an audio track.
C17_AudioSourcePriority ==
    /\ Did("synth") => ~mAudioUrl /\ mNarration
    /\ Did("download") => mAudioUrl /\ ~Did("synth") /\ ~Did("silent")
    /\ Did("silent") => /\ ~mAudioUrl
                        /\ ~Did("synth") \/ Did("synthFailed")
                        /\ ~mAudioSrc
                        /\ ~Did("measure")
    /\ (Did("render") /\ ~Did("silent")) => mAudioSrc

\* C17 witness: no audio URL, the narration was synthesized and measured,
\* and the render began with that track.
C17_Witness ==
    /\ ~mAudioUrl
    /\ Did("synth")
    /\ Did("measure")
    /\ Did("render")
    /\ mAudioSrc

Over == mPc \in {"done", "exited"}

FailurePath == mPc \in {"catch", "exited"} /\ mExit # 0 /\ (Over => mExit = 1 /\ Did("failureHandling"))

\* C18 (as claimed): every error of a stage ends the invocation in the
\* failure path; in particular a job whose voice synthesis failed ends with
\* the failure handling and a non-zero exit code.
C18_EveryStageErrorFails ==
    /\ mError # "" => FailurePath
    /\ (Did("synthFailed") /\ Over) => mExit = 1 /\ Did("failureHandling")

\* C18 (amended): every error a stage lets escape to main() ends the
\* invocation in the failure path, and only such an error does; a failed
\* voice synthesis is not one of them: the render goes on without audio
\* track, with the synthetic silent duration.
C18_StageErrorsFailExceptSynthesis ==
    /\ mError # "" => FailurePath
    /\ mPc \in {"catch", "exited"} => mError # ""
    /\ mError # "synth"
    /\ Did("synthFailed") => /\ Did("silent")
                             /\ ~mAudioSrc
                             /\ mAudioDuration = SilentDuration(mScenes, mClips)
    /\ Did("synth") /\ mPc \in {"awaitDuration"} => mAudioSrc

\* C18 witness: the voice synthesis failed and the job ended successfully.
C18_Witness ==
    /\ Did("synthFailed")
    /\ mPc = "done"
    /\ mExit = 0
    /\ mError = ""

RECURSIVE PositiveSum(_)
PositiveSum(durations) ==
    IF durations = <<>> THEN 0
    ELSE (IF Head(durations) > 0 THEN Head(durations) ELSE 0) + PositiveSum(Tail(durations))

AudioElseClips == IF mAudioDuration > 0 THEN mAudioDuration ELSE 5 * mClips

\* C19 (as claimed): the timeline is the sum of the positive scene durations
\* when there is one, in every mode; otherwise the audio duration if
\* positive, else 5 seconds per clip.
C19_TimelineIsSceneSumElseAudio ==
    Did("render") =>
        mTimeline = IF PositiveSum(mScenes) > 0 THEN PositiveSum(mScenes) ELSE AudioElseClips

\* C19 (amended): the timeline is the sum of the positive scene durations
\* when there is one, in every mode; otherwise the audio duration if
\* positive, else 5 seconds per clip, raised to 30 seconds in talking-head
\* mode.
C19_TimelineIsSceneSumElseFlooredAudio ==
    Did("render") =>
        mTimeline = IF PositiveSum(mScenes) > 0 THEN PositiveSum(mScenes)
                    ELSE IF mTalking /\ AudioElseClips < 30 THEN 30
                    ELSE AudioElseClips

\* C19 witness: a talking-head job without scenes, its audio shorter than
\* 30 seconds, rendered with a 30 second timeline.
C19_Witness ==
    /\ Did("render")
    /\ mTalking
    /\ mScenes = <<>>
    /\ mAudioSrc
    /\ mAudioDuration > 0
    /\ mAudioDuration < 30
    /\ mTimeline = 30

\* C20 (as claimed): the subtitle duration is the minimum of the audio
\* duration and the timeline, at most the measured audio duration when there
\* is an audio track, at most the timeline, and positive.
C20_SubtitlesAreMinimum ==
    Did("render") =>
        /\ mSubtitles = Min(mAudioDuration, mTimeline)
        /\ mAudioSrc => mSubtitles <= mAudioDuration
        /\ mSubtitles <= mTimeline
        /\ mSubtitles > 0

\* C20 (amended): the subtitle duration is the minimum of the audio duration
\* and the timeline when the audio duration is positive, and the timeline
\* when it is 0 (an empty audio track); it is at most the timeline, positive,
\* and at most the measured duration of an audio track that is not empty.
C20_SubtitlesAreMinimumOfPositiveAudio ==
    Did("render") =>
        /\ mAudioDuration > 0 => mSubtitles = Min(mAudioDuration, mTimeline)
        /\ mAudioDuration = 0 => mAudioSrc /\ mSubtitles = mTimeline
        /\ (mAudioSrc /\ mAudioDuration > 0) => mSubtitles <= mAudioDuration
        /\ mSubtitles <= mTimeline
        /\ mSubtitles > 0

\* C20 witness: an audio track measured at 0 seconds, the subtitles as long
\* as the timeline.
C20_Witness ==
    /\ Did("render")
    /\ mAudioSrc
    /\ mAudioDuration = 0
    /\ mSubtitles = mTimeline
    /\ mSubtitles > 0

\* The pipeline stage a log entry belongs to, in pipeline order.
StageRank(stage) ==
    CASE stage \in {"clipRequests", "sceneGen"} -> 1
      [] stage \in {"download", "synth", "measure", "synthFailed", "silent"} -> 2
      [] stage = "render" -> 3
      [] stage = "normalize" -> 4
      [] stage = "upload" -> 5
      [] stage = "callback" -> 6
      [] OTHER -> 7

\* The stage main() is waiting for.
AwaitedStage ==
    CASE mPc = "awaitClipRequests" -> "clipRequests"
      [] mPc = "awaitSceneGen" -> "sceneGen"
      [] mPc = "awaitDownload" -> "download"
      [] mPc = "awaitSynth" -> "synth"
      [] mPc = "awaitDuration" -> "measure"
      [] mPc = "awaitRender" -> "render"
      [] mPc = "awaitNormalize" -> "normalize"
      [] mPc = "awaitUpload" -> "upload"
      [] mPc = "awaitCallback" -> "callback"
      [] OTHER -> ""

SuccessCallbacks == {k \in 1..Len(mCallbacks) : mCallbacks[k].status = "success"}

\* C21: the stages are entered in pipeline order, one at a time, the timeline
\* is computed before the render is entered, and the success callback is
\* requested only after the upload returned, with the URL it returned.
C21_StagesInOrder ==
    /\ \A k, l \in 1..Len(mLog) : k < l => StageRank(mLog[k]) <= StageRank(mLog[l])
    /\ \A k, l \in 1..Len(mLog) : (k < l /\ StageRank(mLog[k]) > 2) => mLog[k] # mLog[l]
    /\ AwaitedStage # "" => mLog[Len(mLog)] = AwaitedStage
    /\ Did("render") => mClips > 0 /\ mTimeline > 0 /\ mSubtitles > 0
    /\ Did("upload") => Did("normalize") /\ Did("render")
    /\ mVideoUrl # "" => Did("upload") /\ mPc \notin {"awaitUpload"}
    /\ Cardinality(SuccessCallbacks) <= 1
    /\ Did("callback") <=> SuccessCallbacks # {}
    /\ \A k \in SuccessCallbacks :
         /\ mVideoUrl \in UploadUrls
         /\ mCallbacks[k].videoUrl = mVideoUrl

\* C21 witness: a job that went through every stage and whose success
\* callback was answered.
C21_Witness ==
    /\ mPc = "done"
    /\ Did("clipRequests")
    /\ Did("measure")
    /\ \E k \in SuccessCallbacks : mCallbacks[k].delivered

\* C22 (as claimed): when an invocation with a webhook has failed and the
\* process has ended, a failure callback was delivered to the webhook.
C22_FailureCallbackDelivered ==
    (mPc = "exited" /\ mWebhook)
        => \E k \in 1..Len(mCallbacks) :
              mCallbacks[k].status = "failed" /\ mCallbacks[k].delivered

\* ------------------------------------- claims: normalization and upload

RequestsTo(target) == {k \in 1..Len(oHttp) : oHttp[k].to = target}

Finished == oPc \in {"uploaded", "threw"}

\* C23: a first upload answered 400 'Bucket not found' is followed by one
\* bucket creation and, when that is answered with success or 409, by exactly
\* one retry; every other error fails the job; at most two uploads and one
\* creation are requested.
C23_UploadRetriesOnceAfterBucketCreation ==
    /\ Cardinality(RequestsTo("upload")) <= 2
    /\ Cardinality(RequestsTo("bucket")) <= 1
    /\ \A k \in RequestsTo("bucket") :
         k = 2 /\ oReplies[1].status = 400 /\ oReplies[1].body = "Bucket not found"
    /\ (Len(oReplies) >= 1 /\ oReplies[1].status = 400 /\ oReplies[1].body = "Bucket not found")
         => RequestsTo("bucket") = {2}
    /\ Len(oReplies) >= 2 =>
         (Cardinality(RequestsTo("upload")) = 2 <=> oReplies[2].status \in {200, 409})
    /\ Len(oReplies) >= 2 /\ oReplies[2].status \notin {200, 409} => oPc = "threw"
    /\ oPc = "uploaded" <=> (oReplies # <<>> /\ oReplies[Len(oReplies)].status = 200
                              /\ Len(oReplies) \in {1, 3})
    /\ (oReplies # <<>> /\ (Finished \/ Len(oReplies) = 3)
          /\ oReplies[Len(oReplies)].status \notin {200, 409}) => oPc = "threw"
    /\ Len(oReplies) <= 3

\* C23 witness: the bucket was missing, its creation was answered 409, and
\* the retry succeeded.
C23_Witness ==
    /\ oPc = "uploaded"
    /\ Len(oReplies) = 3
    /\ oReplies[2].status = 409

Ran(cmd) == \E k \in 1..Len(oCmds) : oCmds[k] = cmd

\* C24: normalization is never a hard gate: whatever happens in it, main()
\* goes on to uploadToSupabase, with the re-encoded file exactly when the
\* encode exited with code 0 and with the rendered file otherwise.
C24_NormalizationNeverGates ==
    /\ oPc = "threw" => oPath # ""
    /\ oPath # "" => (oPath = "out" <=> oEncode = 0)
    /\ \A k \in RequestsTo("upload") : oHttp[k].file = oPath

ProbeAbsent == oPc \notin {"start", "probe"} /\ oFfmpeg /\ oPre = NoGeometry

\* C25 as stated: without a probe result no re-encode is run and the rendered
\* file is the one uploaded.
C25_NoProbeSkipsNormalization ==
    ProbeAbsent => /\ ~Ran("encode")
                   /\ \A k \in RequestsTo("upload") : oHttp[k].file = "input"

\* C25 amended: without a probe result only the detected crop is dropped; the
\* re-encode is started as soon as crop detection returns, and the uploaded
\* file is the re-encoded one exactly when the encode exited with code 0. The
\* re-encode is skipped only when ffmpeg is missing.
C25_NoProbeDropsCropOnly ==
    /\ ProbeAbsent =>
         /\ oCrop = NoCrop
         /\ oPc \notin {"crop", "threw"} => Ran("encode")
         /\ \A k \in RequestsTo("upload") : oHttp[k].file = "out" <=> oEncode = 0
    /\ ~oFfmpeg => /\ oCmds = <<>>
                   /\ \A k \in RequestsTo("upload") : oHttp[k].file = "input"

\* C25 witness: ffprobe is missing, the encode ran and its output is uploaded.
C25_Witness ==
    /\ ~oFfprobe
    /\ ProbeAbsent
    /\ Ran("cropdetect")
    /\ Ran("encode")
    /\ oPc = "uploaded"
    /\ oHttp[1].file = "out"

\* -------------------------------------------------- talking-head detection

\* input.videoMode: absent, "talking_head", " Talking_Head ", "multi_clip"
VideoModes ==
    {<<>>,
     TalkingHeadMode,
     <<32, 84, 97, 108, 107, 105, 110, 103, 95, 72, 101, 97, 100, 32>>,
     <<109, 117, 108, 116, 105, 95, 99, 108, 105, 112>>}

\* input.targetDurationSec
TargetDurations == {0, 29, 30}

ModeInit ==
    /\ ExecIdle
    /\ PollIdle
    /\ SeedIdle
    /\ PromptIdle
    /\ MainIdle
    /\ OutIdle
    /\ CapIdle
    /\ PickIdle
    /\ thMode \in VideoModes
    /\ thTarget \in TargetDurations
    /\ thConfig \in BOOLEAN
    /\ thScenes \in SeqsUpTo(SceneDurations, MaxScenes)
    /\ thPc = "start"
    /\ thResult = FALSE

\* const talkingHeadMode = isTalkingHeadInput(input, input.scenes)
DecideMode ==
    /\ thPc = "start"
    /\ thResult' = isTalkingHeadInput(thMode, thTarget, thConfig, thScenes)
    /\ thPc' = "done"
    /\ UNCHANGED <<thMode, thTarget, thConfig, thScenes>>
    /\ UNCHANGED notMode

ModeNext == DecideMode

ModeSpec == ModeInit /\ [][ModeNext]_vars

\* ------------------------------------------------- artifact-URL search

MaxDepth == 8

\* The deepest nesting of a branch of a payload.
MaxNest == 8

\* node?.key: the value under an own key of an object or array, else undefined.
Get(node, key) ==
    IF \E j \in 1..Len(node.kids) : node.kids[j][1] = key
    THEN node.kids[CHOOSE j \in 1..Len(node.kids) : node.kids[j][1] = key][2]
    ELSE Null

RECURSIVE Path(_, _)
\* node?.k1?.k2?...
Path(node, keys) ==
    IF keys = <<>> THEN node ELSE Path(Get(node, Head(keys)), Tail(keys))

RECURSIVE TextOf(_)
\* clean(v) = String(v ?? "").trim(): a string is itself, null and undefined
\* are "", an object is "[object Object]", an array is its elements' texts
\* joined by commas (the arrays of the payloads here hold one element).
TextOf(node) ==
    CASE node.t = "str" -> node.v
      [] node.t = "obj" -> ObjectText
      [] node.t = "arr" /\ Len(node.kids) = 1 -> TextOf(node.kids[1][2])
      [] OTHER -> NoText

\* The paths pickFirstVideoUrl pushes at an object, in the order of the code.
VideoFields ==
    << <<"video", "url">>, <<"data", "video", "url">>, <<"output", "video", "url">>,
       <<"result", "video", "url">>, <<"response", "video", "url">>,
       <<"video_url">>, <<"videoUrl">>, <<"url">> >>

\* The paths pickFirstImageUrl pushes at an object, in the order of the code.
ImageFields ==
    << <<"url">>, <<"image_url">>, <<"imageUrl">>, <<"data", "image", "url">>,
       <<"data", "images", "0", "url">>, <<"images", "0", "url">> >>

KnownFields(kind) == IF kind = "video" THEN VideoFields ELSE ImageFields

\* What push keeps: looksLikeVideoUrl(u), or looksLikeImageUrl(u) and not a
\* queue/status URL.
Qualifies(kind, u) ==
    IF kind = "video" THEN looksLikeVideoUrl(u) ELSE looksLikeImageUrl(u) /\ ~u.queue

RECURSIVE Flatten(_, _)
\* The first n sequences of seqs, joined in order.
Flatten(seqs, n) == IF n = 0 THEN <<>> ELSE Flatten(seqs, n - 1) \o seqs[n]

\* const push = (v) => { const u = clean(v);
\*   if (!u || seen.has(u) || !looksLike...Url(u)) return; ...; out.push(u) }
\* as what the call offers to out; seen is applied in Unseen.
push(kind, v) ==
    LET u == TextOf(v)
    IN  IF u = NoText \/ ~Qualifies(kind, u) THEN <<>> ELSE <<u>>

TooDeepAtBound(depth) == depth >= MaxDepth
\* depth > 8
TooDeep(depth) == depth > MaxDepth

RECURSIVE walk(_, _, _)
\* const walk = (node, depth = 0) => { ... }, as what it offers to out, in
\* order: at an object the known fields, then Object.values(node) one after
\* the other, each walked at depth + 1; at an array its elements.
walk(kind, node, depth) ==
    IF node.t = "null" \/ TooDeep(depth) THEN <<>>
    ELSE IF node.t = "str" THEN push(kind, node)
    ELSE LET fields == KnownFields(kind)
             own == IF node.t = "arr" THEN <<>>
                    ELSE Flatten([r \in 1..Len(fields) |-> push(kind, Path(node, fields[r]))],
                                 Len(fields))
             below == Flatten([j \in 1..Len(node.kids) |->
                                 walk(kind, node.kids[j][2], depth + 1)],
                              Len(node.kids))
         IN  own \o below

\* seen.has(u): out holds each text once, at its first offer.
Unseen(offers) ==
    SelectSeq([j \in 1..Len(offers) |->
                 [u |-> offers[j], first |-> \A m \in 1..(j - 1) : offers[m] # offers[j]]],
              LAMBDA o : o.first)

\* walk(payload); return out[0] || ""
pickFirstUrl(kind, payload) ==
    LET out == Unseen(walk(kind, payload, 0))
    IN  IF out = <<>> THEN NoText ELSE out[1].u

pickFirstVideoUrl(payload) == pickFirstUrl("video", payload)

pickFirstImageUrl(payload) == pickFirstUrl("image", payload)

\* URLs of the payloads: video files, image files, and an image file under
\* queue.fal.run/.../requests/.
PayloadUrls ==
    [id : {1, 2}, kind : {"video", "image"}, queue : {FALSE}]
    \cup {[id |-> 3, kind |-> "image", queue |-> TRUE]}

\* How a URL sits in its branch: as a bare string, under url, under
\* video.url, under images[0].url, or as the one element of an array under url.
Shapes == {"bare", "url", "video", "images", "list"}

Leaf(shape, u) ==
    CASE shape = "bare" -> Str(u)
      [] shape = "url" -> Obj(<< <<"url", Str(u)>> >>)
      [] shape = "video" -> Obj(<< <<"video", Obj(<< <<"url", Str(u)>> >>)>> >>)
      [] shape = "images" -> Obj(<< <<"images", Arr1(Obj(<< <<"url", Str(u)>> >>))>> >>)
      [] OTHER -> Obj(<< <<"url", Arr1(Str(u))>> >>)

RECURSIVE Nest(_, _)
\* node below d levels of containers, objects and arrays in turn.
Nest(node, d) ==
    IF d = 0 THEN node
    ELSE IF d % 2 = 0 THEN Arr1(Nest(node, d - 1))
    ELSE Obj(<< <<"a", Nest(node, d - 1)>> >>)

\* The depths of nesting tried: none, and those around the bound.
Nestings == {0} \cup ((MaxNest - 2)..MaxNest)

\* A response of two branches, the second under a key that is a known field
\* or one that is not.
Payloads ==
    {Obj(<< <<"a", Nest(Leaf(s1, u1), d1)>>, <<k2, Nest(Leaf(s2, u2), d2)>> >>) :
        s1 \in Shapes, s2 \in Shapes, d1 \in Nestings, d2 \in Nestings,
        u1 \in {u \in PayloadUrls : u.id = 1}, u2 \in {u \in PayloadUrls : u.id # 1},
        k2 \in {"b", "url"}}

PickInit ==
    /\ ExecIdle
    /\ PollIdle
    /\ SeedIdle
    /\ PromptIdle
    /\ MainIdle
    /\ OutIdle
    /\ CapIdle
    /\ ModeIdle
    /\ kKind \in {"video", "image"}
    /\ kPayload \in Payloads
    /\ kPc = "start"
    /\ kResult = NoText

\* pickFirstVideoUrl(resultJson) or pickFirstImageUrl(resultJson)
PickUrl ==
    /\ kPc = "start"
    /\ kResult' = IF kKind = "video" THEN pickFirstVideoUrl(kPayload)
                  ELSE pickFirstImageUrl(kPayload)
    /\ kPc' = "done"
    /\ UNCHANGED <<kKind, kPayload>>
    /\ UNCHANGED notPick

PickNext == PickUrl

PickSpec == PickInit /\ [][PickNext]_vars

\* ---------------------------------------------------------- claims: captions

TimelineBuilt == cPc \in {"timeline", "groups"}

Within1(a, b) == a - b <= 1 /\ b - a <= 1

\* C26: in a word timeline built from a non-empty narration every entry
\* starts where the previous one ends (within one frame), no entry ends before
\* it starts, the first starts at frame 0 and the last ends at
\* round(totalDurationSec * fps) (within one frame).
C26_TimelineIsContinuous ==
    TimelineBuilt =>
        /\ \A i \in 1..Len(cTimeline) : cTimeline[i].startFrame <= cTimeline[i].endFrame
        /\ \A i \in 1..(Len(cTimeline) - 1) :
             Within1(cTimeline[i + 1].startFrame, cTimeline[i].endFrame)
        /\ cTimeline[1].startFrame = 0
        /\ Within1(cTimeline[Len(cTimeline)].endFrame, Round(cDuration * Fps, 10))

\* C26 witness: three or more words of different lengths over 3.7 seconds.
C26_Witness ==
    /\ TimelineBuilt
    /\ cDuration = 37
    /\ Len(cTimeline) >= 3
    /\ \E i, j \in 1..Len(cTimeline) :
         cTimeline[i].endFrame - cTimeline[i].startFrame
            > 1 + cTimeline[j].endFrame - cTimeline[j].startFrame

Last(q) == q[Len(q)]

\* The weight the rule gives a word, in hundredths: 1.0, +0.35 after one of
\* ',;:', +0.8 after one of '.!?', +0.15 with nine alphanumerics or more.
RuleWeight(word) ==
    LET alnum == {k \in 1..Len(word) :
                    \/ word[k] \in 48..57
                    \/ word[k] \in 65..90
                    \/ word[k] \in 97..122}
    IN  100 + (IF Last(word) \in {44, 59, 58} THEN 35 ELSE 0)
            + (IF Last(word) \in {46, 33, 63} THEN 80 ELSE 0)
            + (IF Cardinality(alnum) >= 9 THEN 15 ELSE 0)

\* The sum of the rule's weights of the first n words of the timeline.
RuleWeightSum(n) == SumSeq([i \in 1..n |-> RuleWeight(cTimeline[i].word)])

IsScenario == /\ Len(cTimeline) = 5
              /\ \A i \in 1..5 : cTimeline[i].word = Scenario[i]

\* C27: each word weighs what the rule says and lasts its share of the total
\* duration; "Hello there. How are you?" weighs [1, 1.8, 1, 1, 1.8] and its
\* captions are cut after "there.", giving two groups or more.
C27_WeightsAndScenario ==
    /\ TimelineBuilt =>
         /\ Len(cWeights) = Len(cTimeline)
         /\ \A i \in 1..Len(cTimeline) :
              /\ cWeights[i] = RuleWeight(cTimeline[i].word)
              /\ cTimeline[i].endFrame =
                   Round(RuleWeightSum(i) * cDuration * Fps,
                         10 * RuleWeightSum(Len(cTimeline)))
    /\ TimelineBuilt /\ IsScenario => cWeights = <<100, 180, 100, 100, 180>>
    /\ cPc = "groups" /\ IsScenario =>
         /\ Len(cGroups) >= 2
         /\ \E g \in 1..(Len(cGroups) - 1) : Last(cGroups[g].words).word = There

\* C27 witness: the scenario at 4 seconds with the component's options is cut
\* into "Hello there." and "How are you?".
C27_Witness ==
    /\ cPc = "groups"
    /\ IsScenario
    /\ cDuration = 40
    /\ cOpts = [maxWords |-> 12, maxChars |-> 56]
    /\ Len(cGroups) = 2
    /\ Len(cGroups[1].words) = 2
    /\ cTimeline[2].endFrame = 51

\* The words of a group, as text.
TextsOf(group) == [k \in 1..Len(group.words) |-> group.words[k].word]

\* The whitespace-normalized joined text of a group's words.
JoinedLength(group) == estimateLineLen(TextsOf(group))

\* Word count and text length against the configured values (kept in halves).
WithinLimits(group) ==
    /\ 2 * Len(group.words) <= cOpts.maxWords
    /\ 2 * JoinedLength(group) <= cOpts.maxChars

\* C28 as stated: every group but the final one is within maxWords and
\* maxChars.
C28_GroupsWithinLimits ==
    cPc = "groups" => \A g \in 1..(Len(cGroups) - 1) : WithinLimits(cGroups[g])

\* C28 amended: with maxWords >= 1 and maxChars >= 10, every group but the
\* final one and the groups of a single word is within maxWords and maxChars.
C28_MultiWordGroupsWithinLimits ==
    (cPc = "groups" /\ cOpts.maxWords >= 2 /\ cOpts.maxChars >= 20) =>
        \A g \in 1..(Len(cGroups) - 1) :
            Len(cGroups[g].words) > 1 => WithinLimits(cGroups[g])

\* C28 witness: a group of one word longer than maxChars, and a group of
\* several words before the final group.
C28_Witness ==
    /\ cPc = "groups"
    /\ cOpts.maxWords >= 2 /\ cOpts.maxChars >= 20
    /\ \E g \in 1..(Len(cGroups) - 1) :
         Len(cGroups[g].words) = 1 /\ 2 * JoinedLength(cGroups[g]) > cOpts.maxChars
    /\ \E g \in 1..(Len(cGroups) - 1) : Len(cGroups[g].words) > 1

RECURSIVE Concatenated(_)
\* The words of the groups, one group after the other.
Concatenated(groups) ==
    IF groups = <<>> THEN <<>> ELSE Head(groups).words \o Concatenated(Tail(groups))

\* C29: the groups partition the timeline: their words, in order, are the
\* timeline; no group is empty; a group starts with its first word and ends
\* with its last; a group ends no later than the next one starts.
C29_GroupsPartitionTimeline ==
    cPc = "groups" =>
        /\ Concatenated(cGroups) = cTimeline
        /\ \A g \in 1..Len(cGroups) :
             /\ cGroups[g].words # <<>>
             /\ cGroups[g].startFrame = cGroups[g].words[1].startFrame
             /\ cGroups[g].endFrame = Last(cGroups[g].words).endFrame
        /\ \A g \in 1..(Len(cGroups) - 1) : cGroups[g].endFrame <= cGroups[g + 1].startFrame

\* C29 witness: several groups, one of them of several words, over a
\* positive duration.
C29_Witness ==
    /\ cPc = "groups"
    /\ cDuration > 0
    /\ Len(cGroups) >= 2
    /\ Len(cTimeline) > Len(cGroups)
    /\ Last(cGroups).endFrame > cGroups[1].endFrame

\* C30: a word ending in '.', '!' or '?' closes its group: within a group
\* only the last word may end in one of them.
C30_StrongPauseClosesGroup ==
    cPc = "groups" =>
        \A g \in 1..Len(cGroups) :
            \A k \in 1..(Len(cGroups[g].words) - 1) :
                Last(cGroups[g].words[k].word) \notin {46, 33, 63}

\* C30 witness: a group of two words or more closed by "magnetic!", with
\* another group after it.
C30_Witness ==
    /\ cPc = "groups"
    /\ \E g \in 1..(Len(cGroups) - 1) :
         /\ Len(cGroups[g].words) >= 2
         /\ Last(cGroups[g].words).word = Magnetic

EffectiveMaxWords == Max(1, cOpts.maxWords \div 2)

EffectiveMaxChars == Max(10, cOpts.maxChars \div 2)

\* The next group's first word would have fitted into group g.
NextWordFits(g) ==
    /\ Len(cGroups[g].words) + 1 <= EffectiveMaxWords
    /\ estimateLineLen(Append(TextsOf(cGroups[g]), cGroups[g + 1].words[1].word))
         <= EffectiveMaxChars

\* Group g was closed by the soft pause of its last word: the word ends in
\* one of ',;:' and neither limit forced the cut.
ClosedBySoftPause(g) ==
    /\ g < Len(cGroups)
    /\ Last(Last(cGroups[g].words).word) \in {44, 59, 58}
    /\ NextWordFits(g)

\* C31 as stated: a soft pause closes a group only when the group holds at
\* least 60% of maxWords (so never a group of 3 words when maxWords is 6).
C31_SoftPauseNeedsSixtyPercent ==
    cPc = "groups" =>
        \A g \in 1..Len(cGroups) :
            ClosedBySoftPause(g) => 10 * Len(cGroups[g].words) >= 6 * EffectiveMaxWords

\* C31 amended: a soft pause closes a group only when the group holds at
\* least max(3, floor(0.6 * maxWords)) words; a word ending in a soft pause
\* earlier in a group leaves it open.
C31_SoftPauseNeedsFlooredThreshold ==
    cPc = "groups" =>
        \A g \in 1..Len(cGroups) :
            ClosedBySoftPause(g) =>
                /\ Len(cGroups[g].words) >= 3
                /\ Len(cGroups[g].words) >= (6 * EffectiveMaxWords) \div 10

\* C31 witness: with maxWords 6 a soft pause closes a group of 3 words.
C31_Witness ==
    /\ cPc = "groups"
    /\ EffectiveMaxWords = 6
    /\ ClosedBySoftPause(1)
    /\ Len(cGroups[1].words) = 3

\* ------------------------------------------- claims: talking-head detection

\* The job carries an explicit talking-head mode or config flag.
ExplicitFlag ==
    \/ thConfig
    \/ \E lead, trail \in 0..1 :
         /\ Len(thMode) = lead + 12 + trail
         /\ \A k \in 1..lead : thMode[k] = 32
         /\ \A k \in (lead + 13)..Len(thMode) : thMode[k] = 32
         /\ \A k \in 1..12 :
              thMode[lead + k] \in {TalkingHeadMode[k], TalkingHeadMode[k] - 32}

\* C32 as stated: talking-head mode needs an explicit flag or exactly one
\* scene, whatever the target duration.
C32_TalkingHeadNeedsFlagOrOneScene ==
    (thPc = "done" /\ thResult) => (ExplicitFlag \/ Len(thScenes) = 1)

\* C32 amended: talking-head mode needs an explicit flag, a target duration of
\* 30 seconds or more, or exactly one scene.
C32_TalkingHeadNeedsFlagTargetOrOneScene ==
    (thPc = "done" /\ thResult) =>
        (ExplicitFlag \/ thTarget >= 30 \/ Len(thScenes) = 1)

\* C32 witness: two scenes, no flag and a target of 29 seconds: not
\* talking-head.
C32_Witness ==
    /\ thPc = "done"
    /\ ~thResult
    /\ Len(thScenes) = 2
    /\ thTarget = 29
    /\ thMode # <<>>

\* ------------------------------------------- claims: talking-head timeline

\* C33: a talking-head job with scenes works, before any generation, on
\* exactly one scene of 30 seconds: its scene generation makes one start
\* image and its timeline is exactly 30 seconds; and the timeline of every
\* talking-head job is at least 30 seconds.
C33_TalkingHeadIsOneSceneOfThirty ==
    /\ (mPc \notin {"off", "start"} /\ mTalking /\ mScenes # <<>>) =>
         /\ mScenes = <<30>>
         /\ Did("sceneGen") /\ PastClipStage /\ mError = "" => mClips = 1
         /\ Did("render") => mTimeline = 30
    /\ (mTalking /\ Did("render")) => mTimeline >= 30
    /\ mPc = "start" => mLog = <<>>

\* C33 witness: a job flagged talking-head generated its clip from the one
\* scene and is rendered over 30 seconds.
C33_Witness ==
    /\ mModeFlag
    /\ mTalking
    /\ mScenes = <<30>>
    /\ Did("sceneGen")
    /\ Did("render")
    /\ mClips = 1
    /\ mTimeline = 30

\* --------------------------------------------- claims: one callback per run

Answered(status) ==
    \E k \in 1..Len(mCallbacks) : mCallbacks[k].status = status /\ mCallbacks[k].delivered

Requested(status) == \E k \in 1..Len(mCallbacks) : mCallbacks[k].status = status

\* C34: once the webhook has answered the success callback, the invocation
\* neither requests a failure callback nor ends with a non-zero exit code.
C34_SuccessCallbackIsFinal ==
    Answered("success") =>
        /\ ~Requested("failed")
        /\ mPc # "catch"
        /\ mExit # 1

\* ------------------------------------------ claims: count-mismatch error

AllWorkersReturned ==
    /\ batch \notin {"notStarted", "pending"}
    /\ hasFalKey
    /\ \A w \in Workers : wState[w] \in {"idle", "returned"}

Unreachable ==
    /\ pPc # "off"
    /\ ~pReq.requestId
    /\ ~pReq.statusUrl
    /\ ~pReq.responseUrl

C36_Safe ==
    Unreachable =>
        /\ pHttp = 0
        /\ pPc \in {"init", "sleeping", "timedOut"}
        /\ pUrl = "none"
        /\ pPc = "timedOut" => pNow >= pDeadline /\ pCycles >= 1

\* C36: polling a handle with no request id and no usable status or response
\* URL sends no HTTP request in any cycle, never returns a URL (not even the
\* artifact URL the handle carries), and ends, when every sleep returns, with
\* the timeout error at or after the deadline.
C36_NoUrlsOnlyTimesOut == []C36_Safe /\ (Unreachable ~> pPc = "timedOut")

\* C36 witness: such a handle that carries an artifact URL of its own timed
\* out after several cycles without a single request.
C36_Witness ==
    /\ Unreachable
    /\ pReq.artifact
    /\ pPc = "timedOut"
    /\ pCycles >= 2
    /\ pHttp = 0

\* ---------------------------------------------- claims: the batch settles

Settled == batch \in {"resolved", "rejected"}

C37_Safe ==
    (hasFalKey /\ batch # "notStarted") =>
        /\ batch = "resolved" =>
             /\ \A i \in TaskIds : taskState[i] = "ok"
             /\ \A w \in Workers : wState[w] \in {"idle", "returned"}
             /\ Len(returned) = nTasks
        /\ (\E i \in TaskIds : taskState[i] = "failed") => batch = "rejected"
        /\ \A w \in Workers :
             /\ wState[w] = "running" => wTask[w] \in TaskIds
             /\ wState[w] = "returned" => cursor > nTasks
        /\ (batch = "resolved" /\ nTasks > 0) =>
             cursor = nTasks + NumWorkers(concurrency, nTasks)
        /\ nTasks = 0 =>
             /\ batch = "resolved"
             /\ returned = <<>>
             /\ cursor = 0
             /\ \A w \in Workers : wState[w] = "idle"

RECURSIVE TextDepths(_, _, _)
\* The nesting depths at which the string u occurs in node, itself at depth d.
TextDepths(node, u, d) ==
    IF node.t = "str" THEN (IF node.v = u THEN {d} ELSE {})
    ELSE UNION {TextDepths(node.kids[j][2], u, d + 1) : j \in 1..Len(node.kids)}

RECURSIVE Candidates(_, _, _, _)
\* What the search may return from node at the given depth, each with its
\* place in the traversal: at an object, known field r has rank r and child j
\* rank (number of known fields) + j; a place is the ranks from the root down.
Candidates(kind, node, depth, place) ==
    IF depth > MaxDepth THEN {}
    ELSE IF node.t = "str" THEN {[place |-> place, text |-> node.v]}
    ELSE LET fields == KnownFields(kind)
             own == IF node.t # "obj" THEN {}
                    ELSE {[place |-> Append(place, r), text |-> TextOf(Path(node, fields[r]))] :
                            r \in 1..Len(fields)}
         IN  own \cup UNION {Candidates(kind, node.kids[j][2], depth + 1,
                                        Append(place, Len(fields) + j)) :
                               j \in 1..Len(node.kids)}

\* p comes before q in the traversal.
Before(p, q) ==
    \E n \in 1..Min(Len(p), Len(q)) :
        /\ p[n] < q[n]
        /\ \A m \in 1..(n - 1) : p[m] = q[m]

Qualifying == {c \in Candidates(kKind, kPayload, 0, <<>>) : Qualifies(kKind, c.text)}

FirstInTraversal ==
    IF Qualifying = {} THEN kResult = NoText
    ELSE \E c \in Qualifying :
            /\ kResult = c.text
            /\ \A o \in Qualifying : o = c \/ Before(c.place, o.place)

\* C38 as stated: the URL returned occurs in the payload at a nesting depth
\* of at most 8, and it is the first qualifying one in the traversal order.
C38_ReturnsNothingBelowDepthBound ==
    kPc = "done" =>
        /\ kResult # NoText => \E d \in TextDepths(kPayload, kResult, 0) : d <= MaxDepth
        /\ FirstInTraversal

\* C38, amended: the search visits no value nested deeper than 8; what it
\* returns is the text of a visited string or of the value on a known field
\* path of a visited object, and among these it is the first qualifying one
\* in the traversal order (known fields of a node in their fixed order before
\* its children, children in key order, depth first).
C38_VisitsNothingBelowDepthBound == kPc = "done" => FirstInTraversal

\* C38 witness: a video URL that occurs only at depth 10, under video.url of
\* an object at depth 8, is returned, although another video URL sits in a
\* later branch at depth 1.
C38_Witness ==
    /\ kPc = "done"
    /\ kKind = "video"
    /\ kResult = [id |-> 1, kind |-> "video", queue |-> FALSE]
    /\ TextDepths(kPayload, kResult, 0) = {MaxDepth + 2}
    /\ TextDepths(kPayload, [id |-> 2, kind |-> "video", queue |-> FALSE], 0) = {1}

====
